---- MODULE Spec2Model ----
(***************************************************************************)
(* A model of the ZLang tree-walking interpreter (src/src/interpreter.rs)  *)
(* over its scope stack (src/src/environment.rs) and its AST               *)
(* (src/src/ast.rs).                                                       *)
(*                                                                         *)
(* execute_stmt, evaluate_expr and call_function are recursive Rust        *)
(* methods on one mutable Interpreter; they are modelled as recursive      *)
(* operators that take the interpreter state and return the state after    *)
(* the call together with the Result the method returns.  A `?` in the     *)
(* source is an early return of the Err result with the state as it is at  *)
(* that point.  The state machine steps through the loop of                *)
(* Interpreter::interpret, one top-level statement per step.               *)
(*                                                                         *)
(* Numbers are f64 in the source; the model uses integers, on which the    *)
(* operations used here (+, -, *, comparisons, epsilon equality) agree     *)
(* with f64.  Error messages are the source's messages without their       *)
(* trailing emoji.                                                         *)
(***************************************************************************)
EXTENDS Integers, Sequences, FiniteSets, TLC

(***************************************************************************)
(* ast.rs: Literal (runtime values).  Every value carries all fields so    *)
(* that values of different variants can be compared.                      *)
(***************************************************************************)
Num(n) == [t |-> "Number", n |-> n, s |-> "", b |-> FALSE, a |-> <<>>, o |-> <<>>]
Str(s) == [t |-> "String", n |-> 0, s |-> s, b |-> FALSE, a |-> <<>>, o |-> <<>>]
Bool(b) == [t |-> "Boolean", n |-> 0, s |-> "", b |-> b, a |-> <<>>, o |-> <<>>]
Nil == [t |-> "Nil", n |-> 0, s |-> "", b |-> FALSE, a |-> <<>>, o |-> <<>>]
Arr(a) == [t |-> "Array", n |-> 0, s |-> "", b |-> FALSE, a |-> a, o |-> <<>>]
\* an object is a function from its keys to their values
Obj(o) == [t |-> "Object", n |-> 0, s |-> "", b |-> FALSE, a |-> <<>>, o |-> o]

\* Option<Literal> and Option<String>
NoneV == [some |-> FALSE, v |-> Nil]
SomeV(v) == [some |-> TRUE, v |-> v]
NoneS == [some |-> FALSE, s |-> ""]
SomeS(s) == [some |-> TRUE, s |-> s]

\* impl Display for Literal
RECURSIVE Display(_)
RECURSIVE DisplayItems(_, _)
RECURSIVE DisplayPairs(_)
DisplayItems(arr, i) ==
    IF i > Len(arr) THEN ""
    ELSE (IF i > 1 THEN ", " ELSE "") \o Display(arr[i]) \o DisplayItems(arr, i + 1)

\* the pairs come in the HashMap's iteration order, which is unspecified
\* for two or more keys: the model's objects have at most one key
DisplayPairs(obj) ==
    CASE DOMAIN obj = {} -> ""
      [] Cardinality(DOMAIN obj) = 1 ->
           LET key == CHOOSE k \in DOMAIN obj : TRUE IN
           key \o ": " \o Display(obj[key])

Display(v) ==
    CASE v.t = "Number" -> ToString(v.n)
      [] v.t = "String" -> v.s
      [] v.t = "Boolean" -> IF v.b THEN "fr" ELSE "cap"
      [] v.t = "Nil" -> "nil"
      [] v.t = "Array" -> "[" \o DisplayItems(v.a, 1) \o "]"
      [] v.t = "Object" -> "{" \o DisplayPairs(v.o) \o "}"

(***************************************************************************)
(* ast.rs: Expr and Stmt                                                   *)
(***************************************************************************)
Literal(v) == [k |-> "Literal", v |-> v]
Variable(name) == [k |-> "Variable", name |-> name]
AssignE(name, value) == [k |-> "Assign", name |-> name, value |-> value]
Binary(left, operator, right) ==
    [k |-> "Binary", left |-> left, operator |-> operator, right |-> right]
Unary(operator, right) == [k |-> "Unary", operator |-> operator, right |-> right]
Call(callee, arguments) == [k |-> "Call", callee |-> callee, arguments |-> arguments]
ArrayE(elements) == [k |-> "Array", elements |-> elements]
\* pairs is a sequence of <<key, expression>>
ObjectE(pairs) == [k |-> "Object", pairs |-> pairs]
Index(object, index) == [k |-> "Index", object |-> object, index |-> index]

Expression(expr) == [k |-> "Expression", expr |-> expr]
VarDeclaration(name, initializer) ==
    [k |-> "VarDeclaration", name |-> name, initializer |-> initializer]
Block(statements) == [k |-> "Block", statements |-> statements]
If(condition, then_branch, else_branch) ==
    [k |-> "If", condition |-> condition, then_branch |-> then_branch,
     else_branch |-> else_branch]
While(condition, body) == [k |-> "While", condition |-> condition, body |-> body]
For(variable, iterable, body) ==
    [k |-> "For", variable |-> variable, iterable |-> iterable, body |-> body]
Function(name, params, body) ==
    [k |-> "Function", name |-> name, params |-> params, body |-> body]
Return(expr) == [k |-> "Return", expr |-> expr]
Break == [k |-> "Break"]
Continue == [k |-> "Continue"]
PrintStmt(expr) == [k |-> "Print", expr |-> expr]
Switch(expr, cases, default) ==
    [k |-> "Switch", expr |-> expr, cases |-> cases, default |-> default]
Try(try_block, catch_block, finally_block) ==
    [k |-> "Try", try_block |-> try_block, catch_block |-> catch_block,
     finally_block |-> finally_block]
Throw(expr) == [k |-> "Throw", expr |-> expr]

\* Option<Expr>, Option<Box<Stmt>>, Option<Vec<Stmt>>, Option<(String, Vec<Stmt>)>
Absent == [some |-> FALSE]
Present(x) == [some |-> TRUE, x |-> x]
CatchClause(error_var, catch_stmts) ==
    [some |-> TRUE, error_var |-> error_var, catch_stmts |-> catch_stmts]

(***************************************************************************)
(* environment.rs: Environment.  scopes is a sequence of frames, the       *)
(* global frame first; a frame is a function from names to values.         *)
(***************************************************************************)
EmptyFrame == [name \in {} |-> Nil]

EnvNew == <<EmptyFrame>>

push_scope(scopes) == Append(scopes, EmptyFrame)

\* pop_scope with the bug of popping the global frame too
pop_scope_Unchecked(scopes) ==
    [ok |-> TRUE, scopes |-> SubSeq(scopes, 1, Len(scopes) - 1), msg |-> ""]

\* pop_scope with the bug of refusing to pop the frame above the global one
pop_scope_OffByOne(scopes) ==
    IF Len(scopes) <= 2
    THEN [ok |-> FALSE, scopes |-> scopes,
          msg |-> "Can't pop global scope bestie, that's the foundation!"]
    ELSE [ok |-> TRUE, scopes |-> SubSeq(scopes, 1, Len(scopes) - 1), msg |-> ""]

pop_scope(scopes) ==
    IF Len(scopes) <= 1
    THEN [ok |-> FALSE, scopes |-> scopes,
          msg |-> "Can't pop global scope bestie, that's the foundation!"]
    ELSE [ok |-> TRUE, scopes |-> SubSeq(scopes, 1, Len(scopes) - 1), msg |-> ""]

Insert(frame, name, value) ==
    [k \in DOMAIN frame \cup {name} |-> IF k = name THEN value ELSE frame[k]]

define(scopes, name, value) ==
    IF Len(scopes) = 0 THEN scopes
    ELSE [scopes EXCEPT ![Len(scopes)] = Insert(@, name, value)]

\* the index of the innermost frame at or below i that contains name; 0 if none
RECURSIVE FindFrame(_, _, _)
FindFrame(scopes, name, i) ==
    IF i = 0 THEN 0
    ELSE IF name \in DOMAIN scopes[i] THEN i
    ELSE FindFrame(scopes, name, i - 1)

\* the index of the outermost frame at or above i that contains name; 0 if none
RECURSIVE FindOuterFrame(_, _, _)
FindOuterFrame(scopes, name, i) ==
    IF i > Len(scopes) THEN 0
    ELSE IF name \in DOMAIN scopes[i] THEN i
    ELSE FindOuterFrame(scopes, name, i + 1)

\* assign with the bug of searching from the global frame upwards
assign_Outermost(scopes, name, value) ==
    LET i == FindOuterFrame(scopes, name, 1) IN
    IF i > 0
    THEN [ok |-> TRUE, scopes |-> [scopes EXCEPT ![i] = Insert(@, name, value)],
          msg |-> ""]
    ELSE [ok |-> FALSE, scopes |-> scopes,
          msg |-> "Undefined variable '" \o name
                  \o "', can't assign to something that doesn't exist!"]

get(scopes, name) ==
    LET i == FindFrame(scopes, name, Len(scopes)) IN
    IF i > 0 THEN [ok |-> TRUE, val |-> scopes[i][name], msg |-> ""]
    ELSE [ok |-> FALSE, val |-> Nil,
          msg |-> "Undefined variable '" \o name
                  \o "', you haven't declared this bestie!"]

assign(scopes, name, value) ==
    LET i == FindFrame(scopes, name, Len(scopes)) IN
    IF i > 0
    THEN [ok |-> TRUE, scopes |-> [scopes EXCEPT ![i] = Insert(@, name, value)],
          msg |-> ""]
    ELSE [ok |-> FALSE, scopes |-> scopes,
          msg |-> "Undefined variable '" \o name
                  \o "', can't assign to something that doesn't exist!"]

(***************************************************************************)
(* interpreter.rs: struct Interpreter.  The fields environment (its        *)
(* scopes), functions, return_value, should_break and should_continue are  *)
(* the source's.  log, nid, calls and ret_from are observation only: log   *)
(* is the sequence of events the execution went through, nid numbers the   *)
(* executions of constructs, calls is the stack of the active call         *)
(* numbers and ret_from is the innermost active call (0: none) at the      *)
(* last return statement.  No operator below reads them to decide what     *)
(* the interpreter does.                                                   *)
(*                                                                         *)
(* A handler of the source is written as a chain of operators: where the   *)
(* source binds the result of a call and goes on (`let v = f()?; ...`),    *)
(* the rest of the handler is an operator that takes that result as its    *)
(* argument (BinaryLeft, BlockStep, CallArgs, ...).                        *)
(***************************************************************************)
InterpreterNew ==
    [scopes |-> EnvNew,
     functions |-> [name \in {} |-> 0],
     return_value |-> NoneV,
     should_break |-> FALSE,
     should_continue |-> FALSE,
     log |-> <<>>, nid |-> 0, calls |-> <<>>, ret_from |-> 0]

Emit(st, ev) == [st EXCEPT !.log = Append(@, ev)]
Depth(st) == Len(st.scopes)
Signalled(st) == st.return_value.some \/ st.should_break \/ st.should_continue
ActiveCall(st) == IF Len(st.calls) = 0 THEN 0 ELSE st.calls[Len(st.calls)]

\* Result<Option<String>, ZLangError> of execute_stmt, with the state after it
StmtOk(st, out) == [st |-> st, ok |-> TRUE, out |-> out, msg |-> ""]
StmtErr(st, msg) == [st |-> st, ok |-> FALSE, out |-> NoneS, msg |-> msg]
\* Result<Literal, ZLangError> of evaluate_expr, with the state after it
ExprOk(st, val) == [st |-> st, ok |-> TRUE, val |-> val, msg |-> ""]
ExprErr(st, msg) == [st |-> st, ok |-> FALSE, val |-> Nil, msg |-> msg]

is_truthy(literal) ==
    CASE literal.t = "Boolean" -> literal.b
      [] literal.t = "Nil" -> FALSE
      [] literal.t = "Number" -> literal.n # 0
      [] literal.t = "String" -> literal.s # ""
      [] literal.t = "Array" -> literal.a # <<>>
      [] literal.t = "Object" -> DOMAIN literal.o # {}

\* (a - b).abs() < f64::EPSILON is a = b on the integers
values_equal(left, right) ==
    CASE left.t = "Number" /\ right.t = "Number" -> left.n = right.n
      [] left.t = "String" /\ right.t = "String" -> left.s = right.s
      [] left.t = "Boolean" /\ right.t = "Boolean" -> left.b = right.b
      [] left.t = "Nil" /\ right.t = "Nil" -> TRUE
      [] OTHER -> FALSE

ValOk(val) == [ok |-> TRUE, val |-> val, msg |-> ""]
ValErr(msg) == [ok |-> FALSE, val |-> Nil, msg |-> msg]

\* The operators of the model's expressions: Add, Subtract, Multiply, the
\* comparisons, Equal, NotEqual, And, Or (Divide and Modulo are not used).
apply_binary_op(left, op, right) ==
    CASE left.t = "Number" /\ right.t = "Number" ->
           CASE op = "Add" -> ValOk(Num(left.n + right.n))
             [] op = "Subtract" -> ValOk(Num(left.n - right.n))
             [] op = "Multiply" -> ValOk(Num(left.n * right.n))
             [] op = "Greater" -> ValOk(Bool(left.n > right.n))
             [] op = "GreaterEqual" -> ValOk(Bool(left.n >= right.n))
             [] op = "Less" -> ValOk(Bool(left.n < right.n))
             [] op = "LessEqual" -> ValOk(Bool(left.n <= right.n))
             [] op = "Equal" -> ValOk(Bool(left.n = right.n))
             [] op = "NotEqual" -> ValOk(Bool(left.n # right.n))
             [] OTHER -> ValErr("Invalid operation for numbers, that's not it!")
      [] left.t = "String" /\ right.t = "String" ->
           CASE op = "Add" -> ValOk(Str(left.s \o right.s))
             [] op = "Equal" -> ValOk(Bool(left.s = right.s))
             [] op = "NotEqual" -> ValOk(Bool(left.s # right.s))
             [] OTHER -> ValErr("Invalid operation for strings, strings don't do that!")
      [] left.t = "String" /\ right.t # "String" ->
           CASE op = "Add" -> ValOk(Str(left.s \o Display(right)))
             [] OTHER -> ValErr("Can only concatenate with strings using +, that's the vibe!")
      [] left.t # "String" /\ right.t = "String" ->
           CASE op = "Add" -> ValOk(Str(Display(left) \o right.s))
             [] OTHER -> ValErr("Can only concatenate with strings using +, that's the vibe!")
      [] left.t = "Boolean" /\ right.t = "Boolean" ->
           CASE op = "And" -> ValOk(Bool(left.b /\ right.b))
             [] op = "Or" -> ValOk(Bool(left.b \/ right.b))
             [] op = "Equal" -> ValOk(Bool(left.b = right.b))
             [] op = "NotEqual" -> ValOk(Bool(left.b # right.b))
             [] OTHER -> ValErr("Invalid operation for booleans, booleans are limited bestie!")
      [] OTHER ->
           CASE op = "Equal" -> ValOk(Bool(FALSE))
             [] op = "NotEqual" -> ValOk(Bool(TRUE))
             [] OTHER -> ValErr("Type mismatch in operation, these types don't work together!")

apply_unary_op(op, operand) ==
    CASE op = "Minus" ->
           IF operand.t = "Number" THEN ValOk(Num(0 - operand.n))
           ELSE ValErr("Can only negate numbers, that's basic math!")
      [] op = "Not" -> ValOk(Bool(~is_truthy(operand)))

(***************************************************************************)
(* Observation events.  "stmt": the statement idx of the construct id (of  *)
(* the given kind) has returned, to interpret itself for kind "interpret"  *)
(* and id 0, with the three signals as they are then; "exit": the          *)
(* construct id has returned, d0 is the scope depth at which it began and  *)
(* d1 the depth now, brk and cont the break and continue flags now.        *)
(***************************************************************************)
After(r, kind, id, idx) ==
    [r EXCEPT !.st = Emit(@, [e |-> "stmt", in |-> kind, id |-> id, idx |-> idx,
                              ok |-> r.ok, msg |-> r.msg,
                              ret |-> r.st.return_value.some,
                              brk |-> r.st.should_break,
                              cont |-> r.st.should_continue])]

ExitEv(r, kind, id, d0) ==
    [r EXCEPT !.st = Emit(@, [e |-> "exit", kind |-> kind, id |-> id, ok |-> r.ok,
                              msg |-> r.msg, d0 |-> d0, d1 |-> Depth(r.st),
                              brk |-> r.st.should_break,
                              cont |-> r.st.should_continue])]

\* e.message.contains("break"), over the messages of this model: of the
\* source's own messages none contains "break"; of the thrown strings these do.
contains_break(message) == message \in {"break", "heartbreak"}

RECURSIVE execute_stmt(_, _)
RECURSIVE evaluate_expr(_, _)
RECURSIVE call_function(_, _, _)
RECURSIVE EvalList(_, _, _, _)
RECURSIVE EvalPairs(_, _, _, _)
RECURSIVE BlockLoop(_, _, _, _, _)
RECURSIVE WhileLoop(_, _, _, _)
RECURSIVE ForLoop(_, _, _, _, _)
RECURSIVE TryBody(_, _, _, _)
RECURSIVE RunStmts(_, _, _, _, _)
RECURSIVE CaseBody(_, _, _, _)
RECURSIVE SwitchCases(_, _, _, _, _)
RECURSIVE CallBody(_, _, _, _)

\* for element in elements { values.push(self.evaluate_expr(element)?) }
EvalListPush(v, exprs, i, acc) ==
    IF ~v.ok THEN [st |-> v.st, ok |-> FALSE, vals |-> acc, msg |-> v.msg]
    ELSE EvalList(v.st, exprs, i + 1, Append(acc, v.val))

EvalList(st, exprs, i, acc) ==
    IF i > Len(exprs) THEN [st |-> st, ok |-> TRUE, vals |-> acc, msg |-> ""]
    ELSE EvalListPush(evaluate_expr(st, exprs[i]), exprs, i, acc)

\* for (key, value_expr) in pairs { map.insert(key, self.evaluate_expr(value_expr)?) }
EvalPairsInsert(v, pairs, i, map) ==
    IF ~v.ok THEN [st |-> v.st, ok |-> FALSE, map |-> map, msg |-> v.msg]
    ELSE EvalPairs(v.st, pairs, i + 1, Insert(map, pairs[i][1], v.val))

EvalPairs(st, pairs, i, map) ==
    IF i > Len(pairs) THEN [st |-> st, ok |-> TRUE, map |-> map, msg |-> ""]
    ELSE EvalPairsInsert(evaluate_expr(st, pairs[i][2]), pairs, i, map)

\* Expr::Object on the evaluated pairs
ObjectValues(values) ==
    IF values.ok THEN ExprOk(values.st, Obj(values.map))
    ELSE ExprErr(values.st, values.msg)

\* Expr::Index on the evaluated operands; `idx as usize` truncates and
\* saturates, so a negative number becomes 0
IndexValue(obj_value, index_value) ==
    IF obj_value.t = "Array" /\ index_value.t = "Number"
    THEN LET idx == IF index_value.n < 0 THEN 0 ELSE index_value.n IN
         IF idx < Len(obj_value.a) THEN ValOk(obj_value.a[idx + 1])
         ELSE ValErr("Array index out of bounds bestie!")
    ELSE IF obj_value.t = "Object" /\ index_value.t = "String"
    THEN ValOk(IF index_value.s \in DOMAIN obj_value.o THEN obj_value.o[index_value.s]
               ELSE Nil)
    ELSE ValErr("Invalid indexing operation, check your types!")

\* the builtin "abs" on its evaluated argument
AbsValue(arg) ==
    IF ~arg.ok THEN arg
    ELSE IF arg.val.t = "Number"
    THEN ExprOk(arg.st, Num(IF arg.val.n < 0 THEN 0 - arg.val.n ELSE arg.val.n))
    ELSE ExprErr(arg.st, "abs only works with numbers!")

\* f64::sqrt on the perfect squares (the model's programs take the root
\* of no other number)
Sqrt(n) == CHOOSE r \in 0..n : r * r = n

\* str::to_uppercase on the strings of the model's programs
to_uppercase(s) ==
    CASE s = "a,b" -> "A,B"
      [] s = "," -> ","
      [] s = "a" -> "A"
      [] s = "" -> ""

\* str::split on the strings of the model's programs
split(s, delim) ==
    CASE s = "a,b" /\ delim = "," -> <<"a", "b">>
      [] s = "a,b" /\ delim = "a,b" -> <<"", "">>
      [] s = "," /\ delim = "," -> <<"", "">>
      [] s = "," /\ delim = "a,b" -> <<",">>

\* the builtin "sqrt" on its evaluated argument
SqrtValue(arg) ==
    IF ~arg.ok THEN arg
    ELSE IF arg.val.t = "Number"
    THEN IF arg.val.n < 0
         THEN ExprErr(arg.st, "Can't sqrt negative numbers, that's imaginary!")
         ELSE ExprOk(arg.st, Num(Sqrt(arg.val.n)))
    ELSE ExprErr(arg.st, "sqrt only works with numbers!")

\* the builtin "length" on its evaluated argument
LengthValue(arg) ==
    IF ~arg.ok THEN arg
    ELSE CASE arg.val.t = "String" -> ExprOk(arg.st, Num(Len(arg.val.s)))
           [] arg.val.t = "Array" -> ExprOk(arg.st, Num(Len(arg.val.a)))
           [] OTHER -> ExprErr(arg.st, "length only works with strings and arrays!")

\* the builtin "uppercase" on its evaluated argument
UppercaseValue(arg) ==
    IF ~arg.ok THEN arg
    ELSE IF arg.val.t = "String"
    THEN ExprOk(arg.st, Str(to_uppercase(arg.val.s)))
    ELSE ExprErr(arg.st, "uppercase only works with strings!")

\* the builtin "split": both arguments are evaluated, then their types checked
SplitDelimiter(string_arg, delimiter_arg) ==
    IF ~delimiter_arg.ok THEN delimiter_arg
    ELSE IF string_arg.val.t = "String" /\ delimiter_arg.val.t = "String"
    THEN ExprOk(delimiter_arg.st,
                Arr([i \in DOMAIN split(string_arg.val.s, delimiter_arg.val.s) |->
                         Str(split(string_arg.val.s, delimiter_arg.val.s)[i])]))
    ELSE ExprErr(delimiter_arg.st, "split needs two strings (text, delimiter)!")

SplitString(string_arg, arguments) ==
    IF ~string_arg.ok THEN string_arg
    ELSE SplitDelimiter(string_arg, evaluate_expr(string_arg.st, arguments[2]))

\* lines 296-376: the names the match on the callee takes as builtins
BuiltinNames == {"sqrt", "abs", "random", "length", "uppercase", "split"}

\* the "builtin" event: the arm of the builtin name has been entered
Builtin(st, name) == Emit(st, [e |-> "builtin", name |-> name])

\* lines 377-384: the function table
CallUser(st, name, arguments) ==
    IF name \in DOMAIN st.functions
    THEN call_function(st, st.functions[name], arguments)
    ELSE ExprErr(st, "Undefined function '" \o name
                     \o "', that function doesn't exist bestie!")

\* lines 296-376: the arms of the builtins.  random yields
\* (hash of the clock % 1000) / 1000, a number in [0, 1); no program of the
\* model uses its value, which is the only integer in that range here.
CallBuiltin(st, name, arguments) ==
    CASE name = "sqrt" ->
           IF Len(arguments) # 1 THEN ExprErr(st, "sqrt expects 1 argument bestie!")
           ELSE SqrtValue(evaluate_expr(st, arguments[1]))
      [] name = "abs" ->
           IF Len(arguments) # 1 THEN ExprErr(st, "abs expects 1 argument bestie!")
           ELSE AbsValue(evaluate_expr(st, arguments[1]))
      [] name = "random" ->
           IF Len(arguments) # 0 THEN ExprErr(st, "random takes no arguments bestie!")
           ELSE ExprOk(st, Num(0))
      [] name = "length" ->
           IF Len(arguments) # 1 THEN ExprErr(st, "length expects 1 argument bestie!")
           ELSE LengthValue(evaluate_expr(st, arguments[1]))
      [] name = "uppercase" ->
           IF Len(arguments) # 1 THEN ExprErr(st, "uppercase expects 1 argument bestie!")
           ELSE UppercaseValue(evaluate_expr(st, arguments[1]))
      [] name = "split" ->
           IF Len(arguments) # 2
           THEN ExprErr(st, "split expects 2 arguments (string, delimiter) bestie!")
           ELSE SplitString(evaluate_expr(st, arguments[1]), arguments)

\* EvalCall with the other order: the function table first, then the builtins
EvalCall_TableFirst(st, expr) ==
    IF expr.callee.k = "Variable"
    THEN IF expr.callee.name \in DOMAIN st.functions
         THEN CallUser(st, expr.callee.name, expr.arguments)
         ELSE IF expr.callee.name \in BuiltinNames
         THEN CallBuiltin(Builtin(st, expr.callee.name), expr.callee.name,
                          expr.arguments)
         ELSE CallUser(st, expr.callee.name, expr.arguments)
    ELSE ExprErr(st, "Can only call functions, not other expressions!")

\* Expr::Call: the match on the callee's name takes the builtins first, its
\* last arm is the function table
EvalCall(st, expr) ==
    IF expr.callee.k = "Variable"
    THEN IF expr.callee.name \in BuiltinNames
         THEN CallBuiltin(Builtin(st, expr.callee.name), expr.callee.name,
                          expr.arguments)
         ELSE CallUser(st, expr.callee.name, expr.arguments)
    ELSE ExprErr(st, "Can only call functions, not other expressions!")

\* Expr::Variable on the result of environment.get
VariableValue(st, g) ==
    IF g.ok THEN ExprOk(st, g.val) ELSE ExprErr(st, g.msg)

\* Expr::Assign on the evaluated value
AssignValue(val, name) ==
    IF ~val.ok THEN val
    ELSE LET a == assign(val.st.scopes, name, val.val) IN
         IF ~a.ok THEN ExprErr(val.st, a.msg)
         ELSE ExprOk([val.st EXCEPT !.scopes = a.scopes], val.val)

\* the result of apply_binary_op, apply_unary_op or the indexing, as the
\* result of the expression in the state st
Applied(st, b) ==
    IF b.ok THEN ExprOk(st, b.val) ELSE ExprErr(st, b.msg)

\* Expr::Binary: the left operand is evaluated first, then the right one
\* (both always: && and || do not short-circuit)
BinaryRight(left_val, right_val, operator) ==
    IF ~right_val.ok THEN right_val
    ELSE Applied(right_val.st, apply_binary_op(left_val.val, operator, right_val.val))

\* BinaryLeft with short-circuit evaluation of And and Or
BinaryLeft_ShortCircuit(left_val, expr) ==
    IF ~left_val.ok THEN left_val
    ELSE IF /\ left_val.val.t = "Boolean"
            /\ \/ expr.operator = "And" /\ ~left_val.val.b
               \/ expr.operator = "Or" /\ left_val.val.b
    THEN left_val
    ELSE BinaryRight(left_val, evaluate_expr(left_val.st, expr.right), expr.operator)

BinaryLeft(left_val, expr) ==
    IF ~left_val.ok THEN left_val
    ELSE BinaryRight(left_val, evaluate_expr(left_val.st, expr.right), expr.operator)

\* Expr::Unary on the evaluated operand
UnaryRight(right_val, operator) ==
    IF ~right_val.ok THEN right_val
    ELSE Applied(right_val.st, apply_unary_op(operator, right_val.val))

\* Expr::Array on the evaluated elements
ArrayValues(values) ==
    IF values.ok THEN ExprOk(values.st, Arr(values.vals))
    ELSE ExprErr(values.st, values.msg)

\* Expr::Index: the object is evaluated first, then the index
IndexIndex(obj_value, index_value) ==
    IF ~index_value.ok THEN index_value
    ELSE Applied(index_value.st, IndexValue(obj_value.val, index_value.val))

IndexObject(obj_value, expr) ==
    IF ~obj_value.ok THEN obj_value
    ELSE IndexIndex(obj_value, evaluate_expr(obj_value.st, expr.index))

evaluate_expr(st, expr) ==
    CASE expr.k = "Literal" -> ExprOk(st, expr.v)
      [] expr.k = "Variable" -> VariableValue(st, get(st.scopes, expr.name))
      [] expr.k = "Assign" -> AssignValue(evaluate_expr(st, expr.value), expr.name)
      [] expr.k = "Binary" -> BinaryLeft(evaluate_expr(st, expr.left), expr)
      [] expr.k = "Unary" -> UnaryRight(evaluate_expr(st, expr.right), expr.operator)
      [] expr.k = "Call" -> EvalCall(st, expr)
      [] expr.k = "Array" -> ArrayValues(EvalList(st, expr.elements, 1, <<>>))
      [] expr.k = "Object" -> ObjectValues(EvalPairs(st, expr.pairs, 1, <<>>))
      [] expr.k = "Index" -> IndexObject(evaluate_expr(st, expr.object), expr)

\* for (param, value) in params.zip(arg_values) { define(param, value) }
RECURSIVE BindParams(_, _, _, _)
BindParams(scopes, params, arg_values, i) ==
    IF i > Len(params) \/ i > Len(arg_values) THEN scopes
    ELSE BindParams(define(scopes, params[i], arg_values[i]), params, arg_values, i + 1)

\* call_function, lines 449-455: a statement r of the body has returned
CallBodyStep(r, body, i, id) ==
    IF ~r.ok THEN ExprErr(r.st, r.msg)
    ELSE IF r.st.return_value.some
    THEN ExprOk(Emit([r.st EXCEPT !.return_value = NoneV],
                     [e |-> "consume", id |-> id, from |-> r.st.ret_from,
                      val |-> r.st.return_value.v]),
                r.st.return_value.v)
    ELSE CallBody(r.st, body, i + 1, id)

\* call_function, lines 446-456: the loop over the body
CallBody(st, body, i, id) ==
    IF i > Len(body) THEN [st |-> st, ok |-> TRUE, val |-> Nil, msg |-> ""]
    ELSE CallBodyStep(After(execute_stmt(st, body[i]), "call", id, i), body, i, id)

\* the "exit" event of a call also records the break and continue flags at
\* its start (b0, c0) and at its end (b1, c1), the value it yields, and the
\* scopes at its start (s0) and at its end (s1)
CallExit(r, id, st0) ==
    [r EXCEPT !.st = [Emit(@, [e |-> "exit", kind |-> "call", id |-> id, ok |-> r.ok,
                              msg |-> r.msg, d0 |-> Depth(st0), d1 |-> Depth(r.st),
                              b0 |-> st0.should_break, c0 |-> st0.should_continue,
                              b1 |-> r.st.should_break, c1 |-> r.st.should_continue,
                              val |-> r.val,
                              s0 |-> st0.scopes, s1 |-> r.st.scopes])
                      EXCEPT !.calls = SubSeq(@, 1, Len(@) - 1)]]

\* call_function, lines 449 and 458-461: the `?` on execute_stmt returns
\* before pop_scope
CallPop(r, p, id, st0) ==
    IF ~r.ok THEN CallExit(r, id, st0)
    ELSE IF ~p.ok THEN CallExit(ExprErr(r.st, p.msg), id, st0)
    ELSE CallExit(ExprOk([r.st EXCEPT !.scopes = p.scopes], r.val), id, st0)

CallReturn(r, id, st0) == CallPop(r, pop_scope(r.st.scopes), id, st0)

\* call_function, lines 439-456, in the state st0 after the arguments
CallEnter(st0, function, arg_values, id) ==
    CallReturn(CallBody([st0 EXCEPT !.nid = id, !.calls = Append(@, id),
                                    !.scopes = BindParams(push_scope(@), function.params,
                                                          arg_values, 1)],
                        function.body, 1, id),
               id, st0)

CallArgs(arg_values, function) ==
    IF ~arg_values.ok THEN ExprErr(arg_values.st, arg_values.msg)
    ELSE CallEnter(arg_values.st, function, arg_values.vals, arg_values.st.nid + 1)

call_function(st, function, arguments) ==
    IF Len(arguments) # Len(function.params)
    THEN ExprErr(st, "Function '" \o function.name \o "' expects "
                     \o ToString(Len(function.params)) \o " arguments but got "
                     \o ToString(Len(arguments))
                     \o ", check your parameters bestie!")
    ELSE CallArgs(EvalList(st, arguments, 1, <<>>), function)

\* the output a block keeps: the last Some of its statements
Kept(r, result) == IF r.ok /\ r.out.some THEN r.out ELSE result

\* BlockStep with the bug of going on to the next statement after a failed one
BlockStep_IgnoresError(r, statements, i, result, id) ==
    IF Signalled(r.st) THEN StmtOk(r.st, Kept(r, result))
    ELSE BlockLoop(r.st, statements, i + 1, Kept(r, result), id)

\* Stmt::Block, lines 76-82: a statement r of the block has returned
BlockStep(r, statements, i, result, id) ==
    IF ~r.ok THEN r
    ELSE IF Signalled(r.st) THEN StmtOk(r.st, Kept(r, result))
    ELSE BlockLoop(r.st, statements, i + 1, Kept(r, result), id)

\* Stmt::Block, lines 75-83: the loop over the statements
BlockLoop(st, statements, i, result, id) ==
    IF i > Len(statements) THEN StmtOk(st, result)
    ELSE BlockStep(After(execute_stmt(st, statements[i]), "block", id, i),
                   statements, i, result, id)

\* lines 85-86 (block) and 150-154 (for): pop_scope and the result; the `?`
\* on execute_stmt has returned before it when r is an error
PopScope(r, p, out, kind, id, d0) ==
    IF ~r.ok THEN ExitEv(StmtErr(r.st, r.msg), kind, id, d0)
    ELSE IF ~p.ok THEN ExitEv(StmtErr(r.st, p.msg), kind, id, d0)
    ELSE ExitEv(StmtOk([r.st EXCEPT !.scopes = p.scopes], out), kind, id, d0)

BlockExit(r, id, d0) == PopScope(r, pop_scope(r.st.scopes), r.out, "block", id, d0)

BlockEnter(st, stmt, id) ==
    BlockExit(BlockLoop([st EXCEPT !.nid = id, !.scopes = push_scope(@)],
                        stmt.statements, 1, NoneS, id),
              id, Depth(st))

\* Stmt::Block
ExecBlock(st, stmt) == BlockEnter(st, stmt, st.nid + 1)

\* Stmt::If on the evaluated condition
IfBranch(condition_value, stmt) ==
    IF ~condition_value.ok THEN StmtErr(condition_value.st, condition_value.msg)
    ELSE IF is_truthy(condition_value.val)
    THEN execute_stmt(condition_value.st, stmt.then_branch)
    ELSE IF stmt.else_branch.some
    THEN execute_stmt(condition_value.st, stmt.else_branch.x)
    ELSE StmtOk(condition_value.st, NoneS)

ExecIf(st, stmt) == IfBranch(evaluate_expr(st, stmt.condition), stmt)

\* Stmt::While, lines 106-120: the body r has returned
WhileStep(r, stmt, id, n) ==
    IF ~r.ok THEN StmtErr(r.st, r.msg)
    ELSE IF r.st.should_break
    THEN StmtOk([r.st EXCEPT !.should_break = FALSE], NoneS)
    ELSE IF r.st.should_continue
    THEN WhileLoop([r.st EXCEPT !.should_continue = FALSE], stmt, id, n + 1)
    ELSE IF r.st.return_value.some THEN StmtOk(r.st, NoneS)
    ELSE WhileLoop(r.st, stmt, id, n + 1)

\* Stmt::While, lines 101-106: the condition is evaluated
WhileBody(condition_value, stmt, id, n) ==
    IF ~condition_value.ok THEN StmtErr(condition_value.st, condition_value.msg)
    ELSE IF ~is_truthy(condition_value.val) THEN StmtOk(condition_value.st, NoneS)
    ELSE WhileStep(After(execute_stmt(condition_value.st, stmt.body), "while", id, n),
                   stmt, id, n)

\* Stmt::While: one turn of `loop`; n counts the turns
WhileLoop(st, stmt, id, n) ==
    WhileBody(evaluate_expr(st, stmt.condition), stmt, id, n)

WhileEnter(st, stmt, id) ==
    ExitEv(WhileLoop([st EXCEPT !.nid = id], stmt, id, 1), "while", id, Depth(st))

ExecWhile(st, stmt) == WhileEnter(st, stmt, st.nid + 1)

\* Stmt::For, lines 133-147: the body r has returned
ForStep(r, stmt, arr, i, id) ==
    IF ~r.ok THEN StmtErr(r.st, r.msg)
    ELSE IF r.st.should_break
    THEN StmtOk([r.st EXCEPT !.should_break = FALSE], NoneS)
    ELSE IF r.st.should_continue
    THEN ForLoop([r.st EXCEPT !.should_continue = FALSE], stmt, arr, i + 1, id)
    ELSE IF r.st.return_value.some THEN StmtOk(r.st, NoneS)
    ELSE ForLoop(r.st, stmt, arr, i + 1, id)

\* Stmt::For, lines 131-148: the loop over the items
ForLoop(st, stmt, arr, i, id) ==
    IF i > Len(arr) THEN StmtOk(st, NoneS)
    ELSE ForStep(After(execute_stmt([st EXCEPT !.scopes = define(@, stmt.variable, arr[i])],
                                    stmt.body),
                       "for", id, i),
                 stmt, arr, i, id)

ForExit(r, id, d0) == PopScope(r, pop_scope(r.st.scopes), NoneS, "for", id, d0)

ForEnter(st0, stmt, arr, id) ==
    ForExit(ForLoop([st0 EXCEPT !.nid = id, !.scopes = push_scope(@)], stmt, arr, 1, id),
            id, Depth(st0))

\* Stmt::For on the evaluated iterable
ForItems(iterable_value, stmt) ==
    IF ~iterable_value.ok THEN StmtErr(iterable_value.st, iterable_value.msg)
    ELSE IF iterable_value.val.t # "Array"
    THEN StmtErr(iterable_value.st, "Can only iterate over arrays bestie!")
    ELSE ForEnter(iterable_value.st, stmt, iterable_value.val.a,
                  iterable_value.st.nid + 1)

ExecFor(st, stmt) == ForItems(evaluate_expr(st, stmt.iterable), stmt)

ExecFunction(st, stmt) ==
    StmtOk([st EXCEPT !.functions =
                Insert(@, stmt.name, [name |-> stmt.name, params |-> stmt.params,
                                      body |-> stmt.body])],
           NoneS)

\* Stmt::Return on the evaluated value (Nil without an expression)
ReturnValue(value) ==
    IF ~value.ok THEN StmtErr(value.st, value.msg)
    ELSE StmtOk(Emit([value.st EXCEPT !.return_value = SomeV(value.val),
                                      !.ret_from = ActiveCall(value.st)],
                     [e |-> "return", call |-> ActiveCall(value.st),
                      val |-> value.val]),
                NoneS)

ExecReturn(st, stmt) ==
    ReturnValue(IF stmt.expr.some THEN evaluate_expr(st, stmt.expr.x)
                ELSE ExprOk(st, Nil))

ExecBreak(st) ==
    StmtOk(Emit([st EXCEPT !.should_break = TRUE],
                [e |-> "break", call |-> ActiveCall(st)]), NoneS)

ExecContinue(st) ==
    StmtOk(Emit([st EXCEPT !.should_continue = TRUE],
                [e |-> "continue", call |-> ActiveCall(st)]), NoneS)

\* Stmt::Print on the evaluated value
PrintValue(value) ==
    IF ~value.ok THEN StmtErr(value.st, value.msg)
    ELSE StmtOk(Emit(value.st, [e |-> "print", s |-> Display(value.val)]),
                SomeS(Display(value.val)))

ExecPrint(st, stmt) == PrintValue(evaluate_expr(st, stmt.expr))

\* Stmt::Throw, lines 255-258: the message of the error
ErrorMessage(val) == IF val.t = "String" THEN val.s ELSE "Thrown error"

\* Stmt::Throw on the evaluated value
ThrowValue(error_value) ==
    IF ~error_value.ok THEN StmtErr(error_value.st, error_value.msg)
    ELSE StmtErr(Emit(error_value.st,
                      [e |-> "throw", msg |-> ErrorMessage(error_value.val),
                       val |-> error_value.val]),
                 ErrorMessage(error_value.val))

ExecThrow(st, stmt) == ThrowValue(evaluate_expr(st, stmt.expr))

\* Stmt::Expression on the evaluated value
ExpressionValue(v) ==
    IF ~v.ok THEN StmtErr(v.st, v.msg) ELSE StmtOk(v.st, NoneS)

ExecExpression(st, stmt) == ExpressionValue(evaluate_expr(st, stmt.expr))

\* the "decl" event records the scopes before and after a declaration
Declared(st, name, val, scopes1) ==
    StmtOk(Emit([st EXCEPT !.scopes = scopes1],
                [e |-> "decl", name |-> name, val |-> val,
                 before |-> st.scopes, after |-> scopes1]),
           NoneS)

\* DeclareValue with the bug (or the other design) of always defining the
\* name in the top frame
DeclareValue_Shadows(value, name) ==
    IF ~value.ok THEN StmtErr(value.st, value.msg)
    ELSE Declared(value.st, name, value.val,
                  define(value.st.scopes, name, value.val))

\* lines 66-68: assign, and define only when assign fails
AssignOrDefine(scopes, a, name, val) ==
    IF ~a.ok THEN define(scopes, name, val) ELSE a.scopes

\* Stmt::VarDeclaration on the evaluated initializer (Nil without one)
DeclareValue(value, name) ==
    IF ~value.ok THEN StmtErr(value.st, value.msg)
    ELSE Declared(value.st, name, value.val,
                  AssignOrDefine(value.st.scopes,
                                 assign(value.st.scopes, name, value.val),
                                 name, value.val))

ExecVarDeclaration(st, stmt) ==
    DeclareValue(IF stmt.initializer.some THEN evaluate_expr(st, stmt.initializer.x)
                 ELSE ExprOk(st, Nil),
                 stmt.name)

\* a statement r of a catch, finally or default clause has returned
RunStep(r, stmts, i, kind, id) ==
    IF ~r.ok THEN StmtErr(r.st, r.msg)
    ELSE RunStmts(r.st, stmts, i + 1, kind, id)

\* for stmt in stmts { self.execute_stmt(stmt)?; }: the loops over the
\* statements of a catch clause, a finally clause and a default clause
RunStmts(st, stmts, i, kind, id) ==
    IF i > Len(stmts) THEN StmtOk(st, NoneS)
    ELSE RunStep(After(execute_stmt(st, stmts[i]), kind, id, i), stmts, i, kind, id)

\* Stmt::Switch, lines 196-200: a statement r of the matched case has
\* returned.  An error whose message contains "break" makes the switch
\* return Ok(None).
CaseStep(r, statements, i, id) ==
    IF r.ok THEN CaseBody(r.st, statements, i + 1, id)
    ELSE IF contains_break(r.msg)
    THEN [st |-> r.st, ok |-> TRUE, returned |-> TRUE, msg |-> r.msg]
    ELSE [st |-> r.st, ok |-> FALSE, returned |-> TRUE, msg |-> r.msg]

\* Stmt::Switch, lines 195-201: the statements of the matched case
CaseBody(st, statements, i, id) ==
    IF i > Len(statements) THEN [st |-> st, ok |-> TRUE, returned |-> FALSE, msg |-> ""]
    ELSE CaseStep(After(execute_stmt(st, statements[i]), "case", id, i),
                  statements, i, id)

\* CaseResult with the bug of not setting executed after the matched case
CaseResult_NotExecuted(b) ==
    [st |-> b.st, ok |-> b.ok, returned |-> b.returned,
     executed |-> FALSE, msg |-> b.msg]

\* lines 202-203: executed = true; break, after a case body that ran to its end
CaseResult(b) ==
    [st |-> b.st, ok |-> b.ok, returned |-> b.returned,
     executed |-> ~b.returned, msg |-> b.msg]

\* Stmt::Switch, lines 193-204: the case expression is evaluated
CaseMatch(case_value, stmt, switch_value, i, id) ==
    IF ~case_value.ok
    THEN [st |-> case_value.st, ok |-> FALSE, returned |-> TRUE,
          executed |-> FALSE, msg |-> case_value.msg]
    ELSE IF values_equal(switch_value, case_value.val)
    THEN CaseResult(CaseBody(Emit(case_value.st, [e |-> "case", id |-> id, idx |-> i]),
                             stmt.cases[i].statements, 1, id))
    ELSE SwitchCases(case_value.st, stmt, switch_value, i + 1, id)

\* Stmt::Switch, lines 192-205: the loop over the cases.  returned: the
\* statement has returned from inside the loop; executed: a case body ran
\* to its end.
SwitchCases(st, stmt, switch_value, i, id) ==
    IF i > Len(stmt.cases)
    THEN [st |-> st, ok |-> TRUE, returned |-> FALSE, executed |-> FALSE, msg |-> ""]
    ELSE CaseMatch(evaluate_expr(st, stmt.cases[i].expr), stmt, switch_value, i, id)

\* Stmt::Switch, lines 207-215: the default clause, after the loop c
SwitchDefault(c, stmt, id, d0) ==
    IF c.returned
    THEN ExitEv(IF c.ok THEN StmtOk(c.st, NoneS) ELSE StmtErr(c.st, c.msg),
                "switch", id, d0)
    ELSE IF ~c.executed /\ stmt.default.some
    THEN ExitEv(RunStmts(Emit(c.st, [e |-> "default", id |-> id]),
                         stmt.default.x, 1, "default", id),
                "switch", id, d0)
    ELSE ExitEv(StmtOk(c.st, NoneS), "switch", id, d0)

SwitchEnter(st0, stmt, switch_value, id) ==
    SwitchDefault(SwitchCases([st0 EXCEPT !.nid = id], stmt, switch_value, 1, id),
                  stmt, id, Depth(st0))

\* Stmt::Switch on the evaluated switch expression
SwitchValue(switch_value, stmt) ==
    IF ~switch_value.ok THEN StmtErr(switch_value.st, switch_value.msg)
    ELSE SwitchEnter(switch_value.st, stmt, switch_value.val, switch_value.st.nid + 1)

ExecSwitch(st, stmt) == SwitchValue(evaluate_expr(st, stmt.expr), stmt)

\* a statement r of the try block has returned
TryStep(r, try_block, i, id) ==
    IF ~r.ok THEN StmtErr(r.st, r.msg)
    ELSE TryBody(r.st, try_block, i + 1, id)

\* Stmt::Try, lines 221-229: the loop over the try block; an error ends
\* the loop and is kept as try_result
TryBody(st, try_block, i, id) ==
    IF i > Len(try_block) THEN StmtOk(st, NoneS)
    ELSE TryStep(After(execute_stmt(st, try_block[i]), "try", id, i), try_block, i, id)

\* the three signals of the interpreter
Pending(st) ==
    [return_value |-> st.return_value, should_break |-> st.should_break,
     should_continue |-> st.should_continue]

\* the "exit" event of a try statement also records how its body ended
\* (body_ok, body_msg, sig: a signal was set when the body ended), the
\* signals when the statement began, when its body ended and now, which
\* clauses it has, and where the statement returned (at: "catch" and
\* "finally" are the `?` in those clauses, "end" is the last line)
TryExit(r, id, st0, body, stmt, at) ==
    [r EXCEPT !.st = Emit(@, [e |-> "exit", kind |-> "try", id |-> id, ok |-> r.ok,
                              msg |-> r.msg, d0 |-> Depth(st0), d1 |-> Depth(r.st),
                              body_ok |-> body.ok, body_msg |-> body.msg,
                              sig |-> Signalled(body.st),
                              pending0 |-> Pending(st0),
                              pending1 |-> Pending(body.st),
                              pending2 |-> Pending(r.st),
                              fin_len |-> IF stmt.finally_block.some
                                          THEN Len(stmt.finally_block.x) ELSE 0,
                              has_catch |-> stmt.catch_block.some,
                              has_finally |-> stmt.finally_block.some,
                              at |-> at])]

\* lines 246-250: the finally clause f has returned
FinallyDone(f, stmt, try_result, id, st0, body) ==
    IF ~f.ok THEN TryExit(f, id, st0, body, stmt, "finally")
    ELSE TryExit([try_result EXCEPT !.st = f.st], id, st0, body, stmt, "end")

\* TryFinally with the bug of returning a pending error before the finally clause
TryFinally_SkipsOnError(st, stmt, try_result, id, st0, body) ==
    IF stmt.finally_block.some /\ try_result.ok
    THEN FinallyDone(RunStmts(st, stmt.finally_block.x, 1, "finally", id),
                     stmt, try_result, id, st0, body)
    ELSE TryExit([try_result EXCEPT !.st = st], id, st0, body, stmt, "end")

\* Stmt::Try, lines 244-251: the finally clause, then try_result
TryFinally(st, stmt, try_result, id, st0, body) ==
    IF stmt.finally_block.some
    THEN FinallyDone(RunStmts(st, stmt.finally_block.x, 1, "finally", id),
                     stmt, try_result, id, st0, body)
    ELSE TryExit([try_result EXCEPT !.st = st], id, st0, body, stmt, "end")

\* CatchDone with the bug of leaving try_result an error after the catch body
CatchDone_KeepsError(c, stmt, try_result, id, st0) ==
    IF ~c.ok THEN TryExit(c, id, st0, try_result, stmt, "catch")
    ELSE TryFinally(c.st, stmt, try_result, id, st0, try_result)

\* lines 237-240: the catch clause c has returned; try_result = Ok(None)
CatchDone(c, stmt, try_result, id, st0) ==
    IF ~c.ok THEN TryExit(c, id, st0, try_result, stmt, "catch")
    ELSE TryFinally(c.st, stmt, StmtOk(c.st, NoneS), id, st0, try_result)

\* the "catch" event records the scope depth at which the try statement
\* began (d0) and the depth now (d1), the message and the value the catch
\* variable is bound to
CatchEvent(st1, stmt, try_result, id, st0) ==
    Emit(st1, [e |-> "catch", id |-> id, d0 |-> Depth(st0),
               d1 |-> Depth(st1), msg |-> try_result.msg,
               bound |-> get(st1.scopes, stmt.catch_block.error_var)])

\* Stmt::Try, lines 231-242: the catch clause
TryCatch(try_result, stmt, id, st0) ==
    IF ~try_result.ok /\ stmt.catch_block.some
    THEN CatchDone(RunStmts(CatchEvent([try_result.st EXCEPT !.scopes =
                                            define(@, stmt.catch_block.error_var,
                                                   Str(try_result.msg))],
                                       stmt, try_result, id, st0),
                            stmt.catch_block.catch_stmts, 1, "catch", id),
                   stmt, try_result, id, st0)
    ELSE TryFinally(try_result.st, stmt, try_result, id, st0, try_result)

TryEnter(st, stmt, id) ==
    TryCatch(TryBody([st EXCEPT !.nid = id], stmt.try_block, 1, id), stmt, id, st)

ExecTry(st, stmt) == TryEnter(st, stmt, st.nid + 1)

execute_stmt(st, stmt) ==
    CASE stmt.k = "Expression" -> ExecExpression(st, stmt)
      [] stmt.k = "VarDeclaration" -> ExecVarDeclaration(st, stmt)
      [] stmt.k = "Block" -> ExecBlock(st, stmt)
      [] stmt.k = "If" -> ExecIf(st, stmt)
      [] stmt.k = "While" -> ExecWhile(st, stmt)
      [] stmt.k = "For" -> ExecFor(st, stmt)
      [] stmt.k = "Function" -> ExecFunction(st, stmt)
      [] stmt.k = "Return" -> ExecReturn(st, stmt)
      [] stmt.k = "Break" -> ExecBreak(st)
      [] stmt.k = "Continue" -> ExecContinue(st)
      [] stmt.k = "Print" -> ExecPrint(st, stmt)
      [] stmt.k = "Switch" -> ExecSwitch(st, stmt)
      [] stmt.k = "Try" -> ExecTry(st, stmt)
      [] stmt.k = "Throw" -> ExecThrow(st, stmt)

\* output.join("\n")
RECURSIVE Join(_, _)
Join(output, i) ==
    IF i > Len(output) THEN ""
    ELSE (IF i > 1 THEN "\n" ELSE "") \o output[i] \o Join(output, i + 1)

(***************************************************************************)
(* The programs interpret is run on.  A program is a prelude (a global x   *)
(* and a function f), a body of at most MaxBody simple statements wrapped  *)
(* in at most MaxNest constructs, and a final print of x.                  *)
(***************************************************************************)
MaxBody == 2
MaxNest == 2

StrE(s) == Literal(Str(s))
NumE(n) == Literal(Num(n))
CallStmt(name) == Expression(Call(Variable(name), <<>>))

Leaves ==
    { PrintStmt(StrE("a")),
      Throw(StrE("boom")), Throw(StrE("heartbreak")), Throw(NumE(1)),
      Return(Present(NumE(7))), Break, Continue,
      VarDeclaration("x", Present(NumE(2))),
      VarDeclaration("y", Present(NumE(3))),
      CallStmt("f") }

\* what may follow the first statement of a body
Followers == { CallStmt("f") }

RECURSIVE Bodies(_)
Bodies(n) ==
    IF n = 1 THEN { <<l>> : l \in Leaves }
    ELSE Bodies(n - 1)
         \cup { Append(b, l) : b \in { c \in Bodies(n - 1) : Len(c) = n - 1 },
                               l \in Followers }

Wrappers ==
    { "block", "while", "for", "call", "try_catch", "try_finally",
      "try_catch_finally", "in_catch", "in_finally", "in_finally_caught",
      "case", "default" }

PrintE == <<PrintStmt(Variable("e"))>>
PrintFin == <<PrintStmt(StrE("fin"))>>

\* the statements that run the body b inside the construct w; d tells the
\* loop counters and the functions of different nesting levels apart
Wrap(w, b, d) ==
    LET i == "i" \o ToString(d)
        g == "g" \o ToString(d)
    IN CASE w = "block" -> <<Block(b)>>
         [] w = "while" ->
              << VarDeclaration(i, Present(NumE(0))),
                 While(Binary(Variable(i), "Less", NumE(2)),
                       Block(<<Expression(AssignE(i, Binary(Variable(i), "Add",
                                                            NumE(1))))>> \o b)) >>
         [] w = "for" ->
              <<For("v", ArrayE(<<NumE(1), NumE(2)>>), Block(b))>>
         [] w = "call" ->
              << Function(g, <<>>, b), PrintStmt(Call(Variable(g), <<>>)) >>
         [] w = "try_catch" -> <<Try(b, CatchClause("e", PrintE), Absent)>>
         [] w = "try_finally" -> <<Try(b, Absent, Present(PrintFin))>>
         [] w = "try_catch_finally" ->
              <<Try(b, CatchClause("e", PrintE), Present(PrintFin))>>
         [] w = "in_catch" ->
              <<Try(<<Throw(StrE("t"))>>, CatchClause("e", b), Present(PrintFin))>>
         [] w = "in_finally" ->
              <<Try(<<PrintStmt(StrE("t"))>>, Absent, Present(b))>>
         [] w = "in_finally_caught" ->
              <<Try(<<Throw(StrE("t"))>>, CatchClause("e", PrintE), Present(b))>>
         [] w = "case" ->
              <<Switch(NumE(1),
                       << [expr |-> NumE(2), statements |-> <<PrintStmt(StrE("two"))>>],
                          [expr |-> NumE(1), statements |-> b],
                          [expr |-> NumE(1), statements |-> <<PrintStmt(StrE("dup"))>>] >>,
                       Present(<<PrintStmt(StrE("default"))>>))>>
         [] w = "default" ->
              <<Switch(NumE(1),
                       << [expr |-> NumE(2), statements |-> <<PrintStmt(StrE("two"))>>] >>,
                       Present(b))>>

\* the body b inside the constructs ws, ws[1] the outermost
RECURSIVE Nested(_, _, _)
Nested(ws, b, d) ==
    IF d > Len(ws) THEN b ELSE Wrap(ws[d], Nested(ws, b, d + 1), d)

Nestings == UNION { [1..d -> Wrappers] : d \in 0..MaxNest }

Prelude ==
    << VarDeclaration("x", Present(NumE(1))),
       Function("f", <<>>, <<PrintStmt(StrE("f"))>>) >>

Program(ws, b) == Prelude \o Nested(ws, b, 1) \o <<PrintStmt(Variable("x"))>>

(***************************************************************************)
(* The lexer (lexer.rs).  The source is a sequence of characters, each a   *)
(* string of length one; `current` counts from 0 as in the code, so        *)
(* source[i] of the code is At(l, i).  A word is a sequence of characters. *)
(* The field `log` is a ghost: identifier records what it read there.      *)
(***************************************************************************)
NUL == "NUL"     \* '\0', what peek returns at the end of the source

Digits == {"0", "1", "2", "3", "4", "5", "6", "7", "8", "9"}
Letters ==
    {"a", "b", "c", "d", "e", "f", "g", "h", "i", "j", "k", "l", "m",
     "n", "o", "p", "q", "r", "s", "t", "u", "v", "w", "x", "y", "z",
     "A", "B", "C", "D", "E", "F", "G", "H", "I", "J", "K", "L", "M",
     "N", "O", "P", "Q", "R", "S", "T", "U", "V", "W", "X", "Y", "Z"}

is_ascii_digit(c) == c \in Digits
is_alphabetic(c) == c \in Letters
is_alphanumeric(c) == c \in Letters \cup Digits
\* char::is_whitespace: more than the three characters skip_whitespace knows
is_whitespace(c) == c \in {" ", "\t", "\n", "\r", "\f"}
is_word_char(c) == is_alphanumeric(c) \/ c = "_"

LexerNew(source) ==
    [source |-> source, current |-> 0, line |-> 1, column |-> 1, log |-> <<>>]

At(l, i) == l.source[i + 1]

is_at_end(l) == l.current >= Len(l.source)
peek(l) == IF is_at_end(l) THEN NUL ELSE At(l, l.current)
peek_next(l) == IF l.current + 1 >= Len(l.source) THEN NUL ELSE At(l, l.current + 1)

\* the state after advance; the character it returns is peek before it.
\* The code indexes the source without a test: callers at the end panic.
advance(l) == [l EXCEPT !.current = @ + 1, !.column = @ + 1]

match_char(l, expected) ==
    IF is_at_end(l) \/ At(l, l.current) # expected THEN [l |-> l, matched |-> FALSE]
    ELSE [l |-> advance(l), matched |-> TRUE]

RECURSIVE skip_whitespace(_)
skip_whitespace(l) ==
    IF ~is_at_end(l) /\ peek(l) \in {" ", "\r", "\t"} THEN skip_whitespace(advance(l))
    ELSE l

is_operator_char(c) ==
    c \in {"(", ")", "{", "}", "[", "]", ",", ";", ":", "+", "-", "*", "/",
           "%", "!", "=", ">", "<", "&", "|"}

RECURSIVE TokenLength(_, _, _)
TokenLength(l, pos, length) ==
    IF pos > 0 /\ ~(is_whitespace(At(l, pos - 1)) \/ is_operator_char(At(l, pos - 1)))
    THEN TokenLength(l, pos - 1, length + 1)
    ELSE length

get_current_token_length(l) == TokenLength(l, l.current - 1, 1)

\* self.source[self.current - self.get_current_token_length()..self.current]
TokenText(l) == SubSeq(l.source, l.current - get_current_token_length(l) + 1, l.current)

\* TokenType: the payload of Number is `value`, of String and Identifier `text`
NoValue == [whole |-> 0, frac |-> <<>>]
Tok(type) == [type |-> type, text |-> <<>>, value |-> NoValue]
NumberTok(value) == [type |-> "Number", text |-> <<>>, value |-> value]
StringTok(text) == [type |-> "String", text |-> text, value |-> NoValue]
IdentifierTok(text) == [type |-> "Identifier", text |-> text, value |-> NoValue]

TokenNew(token_type, line, column) ==
    [token_type |-> token_type, line |-> line, column |-> column]

\* what scan_token returns: Ok(Some(token)), Ok(None), Err(message), or the
\* panic of an index past the end of the source
Scanned(l, tok) == [l |-> l, kind |-> "token", tok |-> tok, msg |-> ""]
Skipped(l) == [l |-> l, kind |-> "none", tok |-> Tok("None"), msg |-> ""]
LexError(l, msg) == [l |-> l, kind |-> "error", tok |-> Tok("None"), msg |-> msg]
LexPanic(l) == [l |-> l, kind |-> "panic", tok |-> Tok("None"), msg |-> "index out of bounds"]

RECURSIVE Concat(_)
Concat(chars) == IF chars = <<>> THEN "" ELSE Head(chars) \o Concat(Tail(chars))

\* ---- string
Escapes == [c \in {"n", "t", "r", "\\", "\""} |->
               CASE c = "n" -> "\n" [] c = "t" -> "\t" [] c = "r" -> "\r"
                 [] OTHER -> c]

NewlineSeen(l) ==
    IF peek(l) = "\n" THEN [l EXCEPT !.line = @ + 1, !.column = 1] ELSE l

StringClose(l, value) ==
    IF is_at_end(l)
    THEN LexError(l, "Unterminated string at line " \o ToString(l.line)
                        \o ", where's the closing quote bestie?")
    ELSE Scanned(advance(l), StringTok(value))

RECURSIVE StringLoop(_, _)
\* lines 148-157: the backslash is consumed, l stands at the escaped character
StringEscape(l, value) ==
    IF is_at_end(l) THEN LexPanic(l)
    ELSE IF peek(l) \in DOMAIN Escapes
         THEN StringLoop(advance(l), Append(value, Escapes[peek(l)]))
         ELSE LexError(advance(l),
                       "Invalid escape sequence '\\" \o peek(l) \o "' at line "
                          \o ToString(l.line) \o ", that's sus")

StringChar(l, value) ==
    IF peek(l) = "\\" THEN StringEscape(advance(l), value)
    ELSE StringLoop(advance(l), Append(value, peek(l)))

StringLoop(l, value) ==
    IF peek(l) # "\"" /\ ~is_at_end(l) THEN StringChar(NewlineSeen(l), value)
    ELSE StringClose(l, value)

string(l) == StringLoop(l, <<>>)

\* ---- number
RECURSIVE DigitsLoop(_)
DigitsLoop(l) == IF is_ascii_digit(peek(l)) THEN DigitsLoop(advance(l)) ELSE l

Fraction(l) ==
    IF peek(l) = "." /\ is_ascii_digit(peek_next(l)) THEN DigitsLoop(advance(l)) ELSE l

DigitValue(c) == CHOOSE d \in 0..9 : ToString(d) = c

RECURSIVE Whole(_, _)
Whole(chars, acc) ==
    IF chars = <<>> THEN acc ELSE Whole(Tail(chars), 10 * acc + DigitValue(Head(chars)))

RECURSIVE Trimmed(_)
Trimmed(chars) ==
    IF chars # <<>> /\ chars[Len(chars)] = "0" THEN Trimmed(SubSeq(chars, 1, Len(chars) - 1))
    ELSE chars

Dots(chars) == { i \in 1..Len(chars) : chars[i] = "." }
AllDigits(chars) == chars # <<>> /\ \A i \in 1..Len(chars) : is_ascii_digit(chars[i])

\* str::parse::<f64> on the texts number can cut out: digits, or digits, a
\* dot and digits, are a number; a text with any other character is not
IsNumber(chars) ==
    \/ AllDigits(chars)
    \/ \E i \in Dots(chars) : /\ AllDigits(SubSeq(chars, 1, i - 1))
                              /\ AllDigits(SubSeq(chars, i + 1, Len(chars)))

Parsed(chars) ==
    IF Dots(chars) = {} THEN [whole |-> Whole(chars, 0), frac |-> <<>>]
    ELSE [whole |-> Whole(SubSeq(chars, 1, (CHOOSE i \in Dots(chars) : TRUE) - 1), 0),
          frac |-> Trimmed(SubSeq(chars, (CHOOSE i \in Dots(chars) : TRUE) + 1, Len(chars)))]

NumberToken(l, value) ==
    IF IsNumber(value) THEN Scanned(l, NumberTok(Parsed(value)))
    ELSE LexError(l, "Invalid number '" \o Concat(value) \o "' at line "
                        \o ToString(l.line) \o ", that's not how numbers work chief")

NumberText(l) == NumberToken(l, TokenText(l))

number(l) == NumberText(Fraction(DigitsLoop(l)))

\* ---- identifier
NoWord == [some |-> FALSE, word |-> <<>>]
SomeWord(word) == [some |-> TRUE, word |-> word]

RECURSIVE SkipSpace(_, _)
SkipSpace(l, pos) ==
    IF pos < Len(l.source) /\ is_whitespace(At(l, pos)) THEN SkipSpace(l, pos + 1) ELSE pos

RECURSIVE WordEnd(_, _)
WordEnd(l, pos) ==
    IF pos < Len(l.source) /\ is_word_char(At(l, pos)) THEN WordEnd(l, pos + 1) ELSE pos

WordFrom(l, start) ==
    IF start >= Len(l.source) THEN NoWord
    ELSE IF WordEnd(l, start) > start
         THEN SomeWord(SubSeq(l.source, start + 1, WordEnd(l, start)))
         ELSE NoWord

peek_word(l) == WordFrom(l, SkipSpace(l, l.current))

RECURSIVE ConsumeChars(_)
ConsumeChars(l) ==
    IF l.current < Len(l.source) /\ is_word_char(At(l, l.current))
    THEN ConsumeChars(advance(l))
    ELSE l

RECURSIVE consume_word(_)
consume_word(l) ==
    IF l.current < Len(l.source) /\ is_whitespace(At(l, l.current))
    THEN consume_word(IF At(l, l.current) = "\n"
                      THEN [l EXCEPT !.line = @ + 1, !.column = 1, !.current = @ + 1]
                      ELSE advance(l))
    ELSE ConsumeChars(l)

lowkey == <<"l", "o", "w", "k", "e", "y">>
no == <<"n", "o">>
vibe == <<"v", "i", "b", "e">>
sus == <<"s", "u", "s">>
chill == <<"c", "h", "i", "l", "l">>
check == <<"c", "h", "e", "c", "k">>

\* the second words that complete a keyword, and the token each pair makes
SecondWords ==
    [w \in {lowkey, no, vibe} |->
        CASE w = lowkey -> [x \in {sus} |-> "LowkeySus"]
          [] w = no -> [x \in {sus, chill} |-> IF x = sus THEN "NoSus" ELSE "NoChill"]
          [] w = vibe -> [x \in {check} |-> "VibeCheck"]]

NoToken == [l |-> 0, some |-> FALSE, tok |-> Tok("None")]

\* a lookahead that fails comes back with the lexer untouched
check_multi_word_keyword_Consumes(l, first_word) ==
    IF first_word \in DOMAIN SecondWords
    THEN IF peek_word(l).some /\ peek_word(l).word \in DOMAIN SecondWords[first_word]
         THEN [l |-> consume_word(l), some |-> TRUE,
               tok |-> Tok(SecondWords[first_word][peek_word(l).word])]
         ELSE [NoToken EXCEPT !.l = skip_whitespace(l)]
    ELSE [NoToken EXCEPT !.l = l]

check_multi_word_keyword(l, first_word) ==
    IF first_word \in DOMAIN SecondWords
    THEN IF peek_word(l).some /\ peek_word(l).word \in DOMAIN SecondWords[first_word]
         THEN [l |-> consume_word(l), some |-> TRUE,
               tok |-> Tok(SecondWords[first_word][peek_word(l).word])]
         ELSE [NoToken EXCEPT !.l = l]
    ELSE [NoToken EXCEPT !.l = l]

Keywords ==
    [w \in { <<"f", "r">>, <<"c", "a", "p">>, <<"b", "e", "t">>, sus,
             <<"b", "u", "s", "s", "i", "n">>, <<"p", "e", "r", "i", "o", "d", "t">>,
             <<"f", "l", "e", "x">>, vibe, lowkey, <<"g", "r", "i", "n", "d">>,
             <<"h", "i", "g", "h", "k", "e", "y">>, <<"b", "r", "u", "h">>,
             <<"s", "l", "a", "y">>, <<"g", "h", "o", "s", "t">>,
             <<"m", "a", "n", "i", "f", "e", "s", "t">>, <<"c", "a", "u", "g", "h", "t">>,
             <<"d", "r", "a", "m", "a">>, <<"f", "r", "f", "r">>, <<"i", "n">> } |->
        CASE w = <<"f", "r">> -> "Fr"
          [] w = <<"c", "a", "p">> -> "Cap"
          [] w = <<"b", "e", "t">> -> "Bet"
          [] w = sus -> "Sus"
          [] w = <<"b", "u", "s", "s", "i", "n">> -> "Bussin"
          [] w = <<"p", "e", "r", "i", "o", "d", "t">> -> "Periodt"
          [] w = <<"f", "l", "e", "x">> -> "Flex"
          [] w = vibe -> "Vibe"
          [] w = lowkey -> "Lowkey"
          [] w = <<"g", "r", "i", "n", "d">> -> "Grind"
          [] w = <<"h", "i", "g", "h", "k", "e", "y">> -> "Highkey"
          [] w = <<"b", "r", "u", "h">> -> "Bruh"
          [] w = <<"s", "l", "a", "y">> -> "Slay"
          [] w = <<"g", "h", "o", "s", "t">> -> "Ghost"
          [] w = <<"m", "a", "n", "i", "f", "e", "s", "t">> -> "Manifest"
          [] w = <<"c", "a", "u", "g", "h", "t">> -> "Caught"
          [] w = <<"d", "r", "a", "m", "a">> -> "Drama"
          [] w = <<"f", "r", "f", "r">> -> "Frfr"
          [] w = <<"i", "n">> -> "In"]

Keyword(text) == IF text \in DOMAIN Keywords THEN Tok(Keywords[text]) ELSE IdentifierTok(text)

Position(l) == [current |-> l.current, line |-> l.line, column |-> l.column]

\* ghost: the word read, the word the lookahead saw, the newlines in the
\* whitespace between them and where that whitespace ends, where the lexer
\* stood after the word and where it stands when identifier returns, and the
\* token returned
Read(l, text, m, tok) ==
    [m.l EXCEPT !.log = Append(@,
        [text |-> text, next |-> peek_word(l),
         newlines |-> Cardinality({ i \in l.current..(SkipSpace(l, l.current) - 1) :
                                       At(l, i) = "\n" }),
         until |-> SkipSpace(l, l.current),
         before |-> Position(l), after |-> Position(m.l), tok |-> tok])]

\* lines 202-230: the multi-word token if there is one, else the table
IdentifierToken(l, text, m) ==
    IF m.some THEN Scanned(Read(l, text, m, m.tok), m.tok)
    ELSE Scanned(Read(l, text, m, Keyword(text)), Keyword(text))

IdentifierText(l, text) == IdentifierToken(l, text, check_multi_word_keyword(l, text))

identifier(l) == IdentifierText(ConsumeChars(l), TokenText(ConsumeChars(l)))

\* ---- scan_token
SingleTokens ==
    [c \in {"(", ")", "{", "}", "[", "]", ",", ";", ":", "+", "-", "*", "%"} |->
        CASE c = "(" -> "LeftParen" [] c = ")" -> "RightParen"
          [] c = "{" -> "LeftBrace" [] c = "}" -> "RightBrace"
          [] c = "[" -> "LeftBracket" [] c = "]" -> "RightBracket"
          [] c = "," -> "Comma" [] c = ";" -> "Semicolon" [] c = ":" -> "Colon"
          [] c = "+" -> "Plus" [] c = "-" -> "Minus" [] c = "*" -> "Star"
          [] c = "%" -> "Percent"]

RECURSIVE CommentLoop(_)
CommentLoop(l) ==
    IF peek(l) # "\n" /\ ~is_at_end(l) THEN CommentLoop(advance(l)) ELSE l

\* the arms that look at one more character: m is what match_char returned
Matched(m, two, one) == Scanned(m.l, Tok(IF m.matched THEN two ELSE one))
MatchedOrError(m, two, msg) ==
    IF m.matched THEN Scanned(m.l, Tok(two)) ELSE LexError(m.l, msg)
MatchedComment(m) ==
    IF m.matched THEN Skipped(CommentLoop(m.l)) ELSE Scanned(m.l, Tok("Slash"))

\* lines 52-135: c is the character advance returned, l the lexer after it
ScanChar(l, c) ==
    CASE c \in DOMAIN SingleTokens -> Scanned(l, Tok(SingleTokens[c]))
      [] c = "/" -> MatchedComment(match_char(l, "/"))
      [] c = "!" -> Matched(match_char(l, "="), "BangEqual", "Bang")
      [] c = "=" -> Matched(match_char(l, "="), "EqualEqual", "Equal")
      [] c = ">" -> Matched(match_char(l, "="), "GreaterEqual", "Greater")
      [] c = "<" -> Matched(match_char(l, "="), "LessEqual", "Less")
      [] c = "&" -> MatchedOrError(match_char(l, "&"), "And",
                        "Unexpected character '&' at line " \o ToString(l.line)
                           \o ", that ain't it")
      [] c = "|" -> MatchedOrError(match_char(l, "|"), "Or",
                        "Unexpected character '|' at line " \o ToString(l.line)
                           \o ", not the vibe")
      [] c = "\n" -> Scanned([l EXCEPT !.line = @ + 1, !.column = 1], Tok("Newline"))
      [] c = "\"" -> string(l)
      [] OTHER -> IF is_ascii_digit(c) THEN number(l)
                  ELSE IF is_alphabetic(c) \/ c = "_" THEN identifier(l)
                  ELSE LexError(l, "Unexpected character '" \o c \o "' at line "
                                      \o ToString(l.line) \o ", this ain't valid bestie")

scan_token(l) == ScanChar(advance(l), peek(l))

(***************************************************************************)
(* The parser (parser.rs).  `current` counts from 0 as in the code.  What  *)
(* a parsing function returns is Ok(x) with the parser after it, or the    *)
(* error.  The loops that the functions of the binary operators share are  *)
(* written once, with the level of the operators as a parameter.           *)
(***************************************************************************)
ParserNew(token_list) == [tokens |-> token_list, current |-> 0]

ParseOk(p, x) == [p |-> p, ok |-> TRUE, x |-> x, msg |-> ""]
ParseErr(p, msg) == [p |-> p, ok |-> FALSE, x |-> <<>>, msg |-> msg]

parser_peek(p) == p.tokens[p.current + 1]
parser_is_at_end(p) == parser_peek(p).token_type.type = "Eof"
\* std::mem::discriminant: the variant alone is compared, not its payload
parser_check(p, type) == ~parser_is_at_end(p) /\ parser_peek(p).token_type.type = type
parser_advance(p) == IF parser_is_at_end(p) THEN p ELSE [p EXCEPT !.current = @ + 1]
consume(p, type, message) ==
    IF parser_check(p, type) THEN ParseOk(parser_advance(p), parser_peek(p))
    ELSE ParseErr(p, message)

\* if let TokenType::Identifier(name) = &self.peek().token_type { advance }
Name(p, message) ==
    IF parser_peek(p).token_type.type = "Identifier"
    THEN ParseOk(parser_advance(p), Concat(parser_peek(p).token_type.text))
    ELSE ParseErr(p, message)

consume_statement_end(p, message) ==
    IF parser_check(p, "Semicolon") \/ parser_check(p, "Newline")
    THEN ParseOk(parser_advance(p), <<>>)
    ELSE IF parser_is_at_end(p) THEN ParseOk(p, <<>>)
    ELSE IF \E type \in {"RightBrace", "Bussin", "LowkeySus", "NoSus", "Caught", "Frfr"} :
               parser_check(p, type)
    THEN ParseOk(p, <<>>)
    ELSE ParseErr(p, message)

\* the statement x, once its end e is consumed
Ended(e, x) == IF e.ok THEN ParseOk(e.p, x) ELSE e

RECURSIVE declaration(_)
RECURSIVE statement(_)
RECURSIVE expression(_)
RECURSIVE StatementList(_, _, _)
RECURSIVE Level(_, _)
RECURSIVE unary(_)
RECURSIVE ExprList(_, _)
RECURSIVE Pairs(_, _)
RECURSIVE if_statement(_)
RECURSIVE Clauses(_, _, _)

\* ---- expressions
LevelOps ==
    << [t \in {"Or"} |-> "Or"],
       [t \in {"And"} |-> "And"],
       [t \in {"BangEqual", "EqualEqual"} |->
            IF t = "BangEqual" THEN "NotEqual" ELSE "Equal"],
       [t \in {"Greater", "GreaterEqual", "Less", "LessEqual"} |-> t],
       [t \in {"Minus", "Plus"} |-> IF t = "Minus" THEN "Subtract" ELSE "Add"],
       [t \in {"Slash", "Star", "Percent"} |->
            CASE t = "Slash" -> "Divide" [] t = "Star" -> "Multiply"
              [] t = "Percent" -> "Modulo"] >>

\* the operand of a binary operator of level n: the next level, or unary
LevelOperand(p, n) == IF n = Len(LevelOps) THEN unary(p) ELSE Level(p, n + 1)

RECURSIVE LevelLoop(_, _)
LevelRight(right, left, operator, n) ==
    IF ~right.ok THEN right
    ELSE LevelLoop(ParseOk(right.p, Binary(left, operator, right.x)), n)

\* while let Some(op) = self.match_..._op() { let right = ...?; expr = Binary }
LevelLoop(left, n) ==
    IF ~left.ok THEN left
    ELSE IF ~parser_is_at_end(left.p)
            /\ parser_peek(left.p).token_type.type \in DOMAIN LevelOps[n]
    THEN LevelRight(LevelOperand(parser_advance(left.p), n), left.x,
                    LevelOps[n][parser_peek(left.p).token_type.type], n)
    ELSE left

Level(p, n) == LevelLoop(LevelOperand(p, n), n)

or(p) == Level(p, 1)

AssignmentValue(value, target) ==
    IF ~value.ok THEN value
    ELSE IF target.k = "Variable" THEN ParseOk(value.p, AssignE(target.name, value.x))
    ELSE ParseErr(value.p, "Invalid assignment target, can't assign to that bestie!")

RECURSIVE assignment(_)
AssignmentTarget(expr) ==
    IF ~expr.ok THEN expr
    ELSE IF parser_check(expr.p, "Equal")
    THEN AssignmentValue(assignment(parser_advance(expr.p)), expr.x)
    ELSE expr

assignment(p) == AssignmentTarget(or(p))

expression(p) == assignment(p)

\* the number of a Number token as a Literal (the tokens of the programs
\* below hold whole numbers)
NumberLiteral(value) == Literal(Num(value.whole))

Closed(c, x) == IF c.ok THEN ParseOk(c.p, x) ELSE c

GroupClose(expr) ==
    IF ~expr.ok THEN expr
    ELSE Closed(consume(expr.p, "RightParen",
                        "Expected ')' after expression, balance those parentheses!"),
                expr.x)

ExprListNext(e, acc) ==
    IF ~e.ok THEN e
    ELSE IF parser_check(e.p, "Comma") THEN ExprList(parser_advance(e.p), Append(acc, e.x))
    ELSE ParseOk(e.p, Append(acc, e.x))

\* loop { push(self.expression()?); if !self.match_token(Comma) { break } }
ExprList(p, acc) == ExprListNext(expression(p), acc)

\* the list up to the closing token, empty when that token comes first
ExprListUntil(p, closing) ==
    IF parser_check(p, closing) THEN ParseOk(p, <<>>) ELSE ExprList(p, <<>>)

ArrayClose(elements) ==
    IF ~elements.ok THEN elements
    ELSE Closed(consume(elements.p, "RightBracket",
                        "Expected ']' after array elements, close that array bestie!"),
                ArrayE(elements.x))

PairValue(value, key, acc) ==
    IF ~value.ok THEN value
    ELSE IF parser_check(value.p, "Comma")
    THEN Pairs(parser_advance(value.p), Append(acc, <<key, value.x>>))
    ELSE ParseOk(value.p, Append(acc, <<key, value.x>>))

PairColon(c, key, acc) ==
    IF ~c.ok THEN c ELSE PairValue(expression(c.p), key, acc)

PairKey(p, key, acc) ==
    PairColon(consume(p, "Colon",
                      "Expected ':' after property name, that's how objects work!"),
              key, acc)

\* lines 604-624: the loop over the properties of an object
Pairs(p, acc) ==
    IF parser_peek(p).token_type.type \in {"Identifier", "String"}
    THEN PairKey(parser_advance(p), Concat(parser_peek(p).token_type.text), acc)
    ELSE ParseErr(p, "Expected property name in object, objects need keys bestie!")

ObjectClose(pairs) ==
    IF ~pairs.ok THEN pairs
    ELSE Closed(consume(pairs.p, "RightBrace",
                        "Expected '}' after object properties, close that object!"),
                ObjectE(pairs.x))

primary(p) ==
    CASE parser_peek(p).token_type.type = "Fr" ->
           ParseOk(parser_advance(p), Literal(Bool(TRUE)))
      [] parser_peek(p).token_type.type = "Cap" ->
           ParseOk(parser_advance(p), Literal(Bool(FALSE)))
      [] parser_peek(p).token_type.type = "Number" ->
           ParseOk(parser_advance(p), NumberLiteral(parser_peek(p).token_type.value))
      [] parser_peek(p).token_type.type = "String" ->
           ParseOk(parser_advance(p), Literal(Str(Concat(parser_peek(p).token_type.text))))
      [] parser_peek(p).token_type.type = "Identifier" ->
           ParseOk(parser_advance(p), Variable(Concat(parser_peek(p).token_type.text)))
      [] parser_peek(p).token_type.type = "LeftParen" ->
           GroupClose(expression(parser_advance(p)))
      [] parser_peek(p).token_type.type = "LeftBracket" ->
           ArrayClose(ExprListUntil(parser_advance(p), "RightBracket"))
      [] parser_peek(p).token_type.type = "LeftBrace" ->
           ObjectClose(IF parser_check(parser_advance(p), "RightBrace")
                       THEN ParseOk(parser_advance(p), <<>>)
                       ELSE Pairs(parser_advance(p), <<>>))
      [] OTHER ->
           ParseErr(p, "Unexpected token at line " \o ToString(parser_peek(p).line)
                          \o ", that's not valid in this context bestie")

FinishClose(arguments, callee) ==
    IF ~arguments.ok THEN arguments
    ELSE Closed(consume(arguments.p, "RightParen",
                        "Expected ')' after arguments, close those parentheses!"),
                Call(callee, arguments.x))

finish_call(p, callee) == FinishClose(ExprListUntil(p, "RightParen"), callee)

IndexClose(index, object) ==
    IF ~index.ok THEN index
    ELSE Closed(consume(index.p, "RightBracket",
                        "Expected ']' after array index, close that bracket bestie!"),
                Index(object, index.x))

RECURSIVE CallLoop(_)
CallLoop(expr) ==
    IF ~expr.ok THEN expr
    ELSE IF parser_check(expr.p, "LeftParen")
    THEN CallLoop(finish_call(parser_advance(expr.p), expr.x))
    ELSE IF parser_check(expr.p, "LeftBracket")
    THEN CallLoop(IndexClose(expression(parser_advance(expr.p)), expr.x))
    ELSE expr

call(p) == CallLoop(primary(p))

UnaryOf(right, operator) ==
    IF ~right.ok THEN right ELSE ParseOk(right.p, Unary(operator, right.x))

unary(p) ==
    IF parser_check(p, "Bang") THEN UnaryOf(unary(parser_advance(p)), "Not")
    ELSE IF parser_check(p, "Minus") THEN UnaryOf(unary(parser_advance(p)), "Minus")
    ELSE call(p)

\* ---- statements
\* an expression, then the end of the statement x makes of it
ExprEnded(expr, kind, message) ==
    IF ~expr.ok THEN expr
    ELSE Ended(consume_statement_end(expr.p, message),
               CASE kind = "Throw" -> Throw(expr.x)
                 [] kind = "Return" -> Return(Present(expr.x))
                 [] kind = "Print" -> PrintStmt(expr.x)
                 [] kind = "Expression" -> Expression(expr.x))

throw_statement(p) ==
    ExprEnded(expression(p), "Throw", "Expected ';' or newline after throw expression")

return_statement(p) ==
    IF parser_check(p, "Semicolon") \/ parser_check(p, "Newline")
    THEN Ended(consume_statement_end(p, "Expected ';' or newline after return value"),
               Return(Absent))
    ELSE ExprEnded(expression(p), "Return", "Expected ';' or newline after return value")

print_statement(p) ==
    ExprEnded(expression(p), "Print", "Expected ';' or newline after print statement")

expression_statement(p) ==
    ExprEnded(expression(p), "Expression", "Expected ';' or newline after expression")

StatementPush(d, stops, acc) ==
    IF ~d.ok THEN d ELSE StatementList(d.p, stops, Append(acc, d.x))

\* while !self.check(RightBrace) && ... && !self.is_at_end() {
\*     if self.match_token(Newline) { continue }  push(self.declaration()?) }
\* stops: the token types whose check ends the loop
StatementList(p, stops, acc) ==
    IF parser_is_at_end(p) \/ \E type \in stops : parser_check(p, type)
    THEN ParseOk(p, acc)
    ELSE IF parser_check(p, "Newline") THEN StatementList(parser_advance(p), stops, acc)
    ELSE StatementPush(declaration(p), stops, acc)

BlockClose(list) ==
    IF ~list.ok THEN list
    ELSE Closed(consume(list.p, "RightBrace",
                        "Expected '}' after block, gotta close that block bestie!"),
                Block(list.x))

block_statement(p) == BlockClose(StatementList(p, {"RightBrace"}, <<>>))

\* consume '(' , expression, consume ')'
ConditionClose(expr, close_message) ==
    IF ~expr.ok THEN expr
    ELSE Closed(consume(expr.p, "RightParen", close_message), expr.x)

ConditionOpen(c, close_message) ==
    IF ~c.ok THEN c ELSE ConditionClose(expression(c.p), close_message)

Condition(p, open_message, close_message) ==
    ConditionOpen(consume(p, "LeftParen", open_message), close_message)

IfElse(else_branch, condition, then_branch) ==
    IF ~else_branch.ok THEN else_branch
    ELSE ParseOk(else_branch.p, If(condition, then_branch, Present(else_branch.x)))

IfThen(then_branch, condition) ==
    IF ~then_branch.ok THEN then_branch
    ELSE IF parser_check(then_branch.p, "LowkeySus")
    THEN IfElse(if_statement(parser_advance(then_branch.p)), condition, then_branch.x)
    ELSE IF parser_check(then_branch.p, "Bussin") \/ parser_check(then_branch.p, "NoSus")
    THEN IfElse(statement(parser_advance(then_branch.p)), condition, then_branch.x)
    ELSE ParseOk(then_branch.p, If(condition, then_branch.x, Absent))

IfCondition(condition) ==
    IF ~condition.ok THEN condition ELSE IfThen(statement(condition.p), condition.x)

if_statement(p) ==
    IfCondition(Condition(p, "Expected '(' after 'sus'", "Expected ')' after condition"))

WhileParsed(body, condition) ==
    IF ~body.ok THEN body ELSE ParseOk(body.p, While(condition, body.x))

WhileCondition(condition) ==
    IF ~condition.ok THEN condition ELSE WhileParsed(statement(condition.p), condition.x)

while_statement(p) ==
    WhileCondition(Condition(p, "Expected '(' after 'lowkey', wrap that condition bestie!",
                             "Expected ')' after condition"))

ForBody(body, variable, iterable) ==
    IF ~body.ok THEN body ELSE ParseOk(body.p, For(variable, iterable, body.x))

ForClose(c, variable, iterable) ==
    IF ~c.ok THEN c ELSE ForBody(statement(c.p), variable, iterable)

ForIterable(iterable, variable) ==
    IF ~iterable.ok THEN iterable
    ELSE ForClose(consume(iterable.p, "RightParen", "Expected ')' after iterable"),
                  variable, iterable.x)

ForIn(c, variable) ==
    IF ~c.ok THEN c ELSE ForIterable(expression(c.p), variable)

ForVariable(variable) ==
    IF ~variable.ok THEN variable
    ELSE ForIn(consume(variable.p, "In", "Expected 'in' after loop variable"), variable.x)

ForOpen(c) ==
    IF ~c.ok THEN c ELSE ForVariable(Name(c.p, "Expected variable name in for loop"))

for_statement(p) == ForOpen(consume(p, "LeftParen", "Expected '(' after for loop"))

\* ---- switch
SwitchClose(c, expr, cases, default) ==
    IF ~c.ok THEN c ELSE ParseOk(c.p, Switch(expr, cases, default))

ClauseStops == {"RightBrace", "Identifier"}

DefaultStatements(list, expr, cases) ==
    IF ~list.ok THEN list ELSE Clauses(list.p, expr, [cases |-> cases, default |-> Present(list.x)])

DefaultColon(c, expr, cases) ==
    IF ~c.ok THEN c
    ELSE DefaultStatements(StatementList(c.p, ClauseStops, <<>>), expr, cases)

CaseClause(list, expr, case_expr, clauses) ==
    IF ~list.ok THEN list
    ELSE Clauses(list.p, expr,
                 [clauses EXCEPT !.cases =
                      Append(@, [expr |-> case_expr, statements |-> list.x])])

CaseColon(c, expr, case_expr, clauses) ==
    IF ~c.ok THEN c
    ELSE CaseClause(StatementList(c.p, ClauseStops, <<>>), expr, case_expr, clauses)

CaseExpr(case_expr, expr, clauses) ==
    IF ~case_expr.ok THEN case_expr
    ELSE CaseColon(consume(case_expr.p, "Colon", "Expected ':' after case value"),
                   expr, case_expr.x, clauses)

\* lines 197-227: the loop over the clauses; check compares the variant
\* only, so check(Identifier("default")) holds at every identifier
Clauses(p, expr, clauses) ==
    IF parser_check(p, "RightBrace") \/ parser_is_at_end(p)
    THEN SwitchClose(consume(p, "RightBrace", "Expected '}' after switch cases"),
                     expr, clauses.cases, clauses.default)
    ELSE IF parser_check(p, "Newline") THEN Clauses(parser_advance(p), expr, clauses)
    ELSE IF parser_check(p, "Identifier")
    THEN DefaultColon(consume(parser_advance(p), "Colon", "Expected ':' after default"),
                      expr, clauses.cases)
    ELSE CaseExpr(expression(p), expr, clauses)

SwitchOpen(c, expr) ==
    IF ~c.ok THEN c ELSE Clauses(c.p, expr, [cases |-> <<>>, default |-> Absent])

SwitchExpr(expr) ==
    IF ~expr.ok THEN expr
    ELSE SwitchOpen(consume(expr.p, "LeftBrace", "Expected '{' after switch expression"),
                    expr.x)

switch_statement(p) ==
    SwitchExpr(Condition(p, "Expected '(' after 'vibe check'",
                         "Expected ')' after switch expression"))

\* ---- try
BracedClose(list, close_message) ==
    IF ~list.ok THEN list
    ELSE Closed(consume(list.p, "RightBrace", close_message), list.x)

BracedOpen(c, close_message) ==
    IF ~c.ok THEN c
    ELSE BracedClose(StatementList(c.p, {"RightBrace"}, <<>>), close_message)

\* consume '{', the statements up to '}', consume '}'
Braced(p, open_message, close_message) ==
    BracedOpen(consume(p, "LeftBrace", open_message), close_message)

FinallyBlock(finally_stmts, try_block, catch_block) ==
    IF ~finally_stmts.ok THEN finally_stmts
    ELSE ParseOk(finally_stmts.p, Try(try_block, catch_block, Present(finally_stmts.x)))

TryFinallyClause(p, try_block, catch_block) ==
    IF parser_check(p, "Frfr")
    THEN FinallyBlock(Braced(parser_advance(p), "Expected '{' after 'frfr'",
                             "Expected '}' after finally block"),
                      try_block, catch_block)
    ELSE ParseOk(p, Try(try_block, catch_block, Absent))

CatchBlock(catch_stmts, try_block, error_var) ==
    IF ~catch_stmts.ok THEN catch_stmts
    ELSE TryFinallyClause(catch_stmts.p, try_block, CatchClause(error_var, catch_stmts.x))

CatchClose(c, try_block, error_var) ==
    IF ~c.ok THEN c
    ELSE CatchBlock(Braced(c.p, "Expected '{' after catch clause",
                           "Expected '}' after catch block"),
                    try_block, error_var)

CatchVariable(error_var, try_block) ==
    IF ~error_var.ok THEN error_var
    ELSE CatchClose(consume(error_var.p, "RightParen", "Expected ')' after error variable"),
                    try_block, error_var.x)

CatchOpen(c, try_block) ==
    IF ~c.ok THEN c
    ELSE CatchVariable(Name(c.p, "Expected error variable name"), try_block)

TryBlock(try_block) ==
    IF ~try_block.ok THEN try_block
    ELSE IF parser_check(try_block.p, "Caught")
    THEN CatchOpen(consume(parser_advance(try_block.p), "LeftParen",
                           "Expected '(' after 'caught'"),
                   try_block.x)
    ELSE TryFinallyClause(try_block.p, try_block.x, Absent)

try_statement(p) ==
    TryBlock(Braced(p, "Expected '{' after 'manifest'", "Expected '}' after try block"))

statement(p) ==
    CASE parser_check(p, "Sus") \/ parser_check(p, "LowkeySus") \/ parser_check(p, "NoSus") ->
           if_statement(parser_advance(p))
      [] parser_check(p, "Lowkey") -> while_statement(parser_advance(p))
      [] parser_check(p, "Highkey") \/ parser_check(p, "Grind") ->
           for_statement(parser_advance(p))
      [] parser_check(p, "VibeCheck") -> switch_statement(parser_advance(p))
      [] parser_check(p, "Manifest") -> try_statement(parser_advance(p))
      [] parser_check(p, "Drama") -> throw_statement(parser_advance(p))
      [] parser_check(p, "LeftBrace") -> block_statement(parser_advance(p))
      [] parser_check(p, "Vibe") -> return_statement(parser_advance(p))
      [] parser_check(p, "Slay") ->
           Ended(consume_statement_end(parser_advance(p),
                                       "Expected ';' or newline after 'slay'"),
                 Break)
      [] parser_check(p, "Ghost") \/ parser_check(p, "NoChill") ->
           Ended(consume_statement_end(parser_advance(p),
                                       "Expected ';' or newline after continue"),
                 Continue)
      [] parser_check(p, "Bruh") -> print_statement(parser_advance(p))
      [] OTHER -> expression_statement(p)

\* ---- declarations
RECURSIVE ParamList(_, _)
ParamNext(param, acc) ==
    IF ~param.ok THEN param
    ELSE IF parser_check(param.p, "Comma")
    THEN ParamList(parser_advance(param.p), Append(acc, param.x))
    ELSE ParseOk(param.p, Append(acc, param.x))

ParamList(p, acc) ==
    ParamNext(Name(p, "Expected parameter name in function declaration"), acc)

FunctionBody(body, name, params) ==
    IF ~body.ok THEN body ELSE ParseOk(body.p, Function(name, params, body.x.statements))

FunctionBrace(c, name, params) ==
    IF ~c.ok THEN c ELSE FunctionBody(block_statement(c.p), name, params)

FunctionClose(c, name, params) ==
    IF ~c.ok THEN c
    ELSE FunctionBrace(consume(c.p, "LeftBrace",
                               "Expected '{' before function body, gotta have that block!"),
                       name, params)

FunctionParams(params, name) ==
    IF ~params.ok THEN params
    ELSE FunctionClose(consume(params.p, "RightParen",
                               "Expected ')' after parameters, close it up!"),
                       name, params.x)

FunctionOpen(c, name) ==
    IF ~c.ok THEN c
    ELSE FunctionParams(IF parser_check(c.p, "RightParen") THEN ParseOk(c.p, <<>>)
                        ELSE ParamList(c.p, <<>>),
                        name)

FunctionName(name) ==
    IF ~name.ok THEN name
    ELSE FunctionOpen(consume(name.p, "LeftParen",
                              "Expected '(' after function name, that's how functions work!"),
                      name.x)

function_declaration(p) == FunctionName(Name(p, "Expected function name bestie"))

VarInitializer(initializer, name) ==
    IF ~initializer.ok THEN initializer
    ELSE Ended(consume_statement_end(initializer.p,
                                     "Expected ';' or newline after variable declaration"),
               VarDeclaration(name, Present(initializer.x)))

VarName(name) ==
    IF ~name.ok THEN name
    ELSE IF parser_check(name.p, "Equal")
    THEN VarInitializer(expression(parser_advance(name.p)), name.x)
    ELSE Ended(consume_statement_end(name.p,
                                     "Expected ';' or newline after variable declaration"),
               VarDeclaration(name.x, Absent))

var_declaration(p) ==
    VarName(Name(p, "Expected variable name after 'bet', gotta name your variables bestie"))

declaration(p) ==
    IF parser_check(p, "Flex") THEN function_declaration(parser_advance(p))
    ELSE IF parser_check(p, "Bet") THEN var_declaration(parser_advance(p))
    ELSE statement(p)

(***************************************************************************)
(* The state machine: Interpreter::interpret on a new Interpreter, one     *)
(* turn of its loop over the statements per step.                          *)
(***************************************************************************)
VARIABLES
    statements,   \* the argument of interpret
    pc,           \* the index of the next statement of the loop
    interp,       \* the Interpreter
    output,       \* interpret's local Vec<String>
    result,       \* what interpret or tokenize returned, once it has (done)
    lexer,        \* the Lexer
    tokens,       \* tokenize's local Vec<Token>
    parser,       \* the Parser
    stdin         \* the input lines run_repl has not read yet, parsed

vars == <<statements, pc, interp, output, result, lexer, tokens, parser, stdin>>

Running == [done |-> FALSE, ok |-> FALSE, text |-> "", msg |-> ""]
Ok(text) == [done |-> TRUE, ok |-> TRUE, text |-> text, msg |-> ""]
Err(msg) == [done |-> TRUE, ok |-> FALSE, text |-> "", msg |-> msg]

Init ==
    /\ \E ws \in Nestings, b \in Bodies(MaxBody) : statements = Program(ws, b)
    /\ pc = 1
    /\ interp = InterpreterNew
    /\ output = <<>>
    /\ result = Running
    /\ lexer = LexerNew(<<>>)
    /\ tokens = <<>>
    /\ parser = ParserNew(<<>>)
    /\ stdin = <<>>

\* lines 42-44: if let Some(result) = ... { output.push(result) }
Collected(r) == IF r.ok /\ r.out.some THEN Append(output, r.out.s) ELSE output

\* lines 40-47: the statement r has returned; `?` returns the error, a set
\* return_value ends the loop
InterpretStep(r) ==
    /\ interp' = r.st
    /\ output' = Collected(r)
    /\ pc' = pc + 1
    /\ result' = IF ~r.ok THEN Err(r.msg)
                 ELSE IF r.st.return_value.some THEN Ok(Join(Collected(r), 1))
                 ELSE Running

\* lines 38-47: one turn of the loop
InterpretStmt ==
    /\ ~result.done
    /\ pc <= Len(statements)
    /\ InterpretStep(After(execute_stmt(interp, statements[pc]), "interpret", 0, pc))
    /\ UNCHANGED <<statements, lexer, tokens, parser, stdin>>

\* line 49: the loop has run through all statements
InterpretEnd ==
    /\ ~result.done
    /\ pc > Len(statements)
    /\ result' = Ok(Join(output, 1))
    /\ UNCHANGED <<statements, pc, interp, output, lexer, tokens, parser, stdin>>

Next == InterpretStmt \/ InterpretEnd

Spec == Init /\ [][Next]_vars

(***************************************************************************)
(* Properties                                                              *)
(***************************************************************************)
Log == interp.log
Events(e) == { i \in DOMAIN Log : Log[i].e = e }
TryExits == { i \in Events("exit") : Log[i].kind = "try" }
CallExits == { i \in Events("exit") : Log[i].kind = "call" }
SwitchExits == { i \in Events("exit") : Log[i].kind = "switch" }
Failed == { i \in Events("stmt") : ~Log[i].ok }
Max(S) == CHOOSE m \in S : \A n \in S : n <= m

\* the rendered values of the print statements executed so far, in order
RECURSIVE Printed(_, _)
Printed(log, i) ==
    IF i > Len(log) THEN <<>>
    ELSE (IF log[i].e = "print" THEN <<log[i].s>> ELSE <<>>) \o Printed(log, i + 1)

\* how often statement idx of the finally clause of try statement id ran
FinallyRuns(id, idx) ==
    Cardinality({ i \in Events("stmt") :
                    Log[i].in = "finally" /\ Log[i].id = id /\ Log[i].idx = idx })

\* C1: when interpret returns Ok, the text it returns is the lines of the
\* executed print statements, one line each, in execution order.
C1_EveryPrintIsALine ==
    result.done /\ result.ok => result.text = Join(Printed(Log, 1), 1)

\* C2: at the moment a try statement handles an error, the scope depth is
\* the depth at which the try statement began (every block, for loop and
\* call the error left has popped its scope).
C2_ScopesPoppedWhenCaught ==
    \A i \in Events("catch") : Log[i].d1 = Log[i].d0

\* C3: when interpret returns Ok (on an interpreter that had depth 1 at the
\* start), the environment consists of the global frame alone; stated for
\* the runs the claim singles out, in which every error raised was caught
\* by a try statement (no switch statement was executed).
C3_DepthOneAtOk ==
    result.done /\ result.ok /\ SwitchExits = {} => Depth(interp) = 1

\* C5: when the catch body of a try statement with a finally clause raises
\* an error, the finally clause has run when the statement returns.
C5_FinallyAfterCatchError ==
    \A i \in TryExits :
        Log[i].at = "catch" /\ Log[i].has_finally => FinallyRuns(Log[i].id, 1) = 1

\* C6: the call that consumes a return signal is the call that was the
\* innermost active one when the return statement executed.
C6_ReturnConsumedByItsCall ==
    \A i \in Events("consume") : Log[i].id = Log[i].from

\* C7: a break or continue flag that was clear when a call began is clear
\* when the call returns (the statement makes the call fail instead).
C7_NoSignalLeavesACall ==
    \A i \in CallExits :
        /\ ~Log[i].b0 => ~Log[i].b1
        /\ ~Log[i].c0 => ~Log[i].c1

\* C4: a try statement with a finally clause runs the statements of that
\* clause exactly once, after its body (and its catch body), when the body
\* ended normally, or with a signal set, or with an error that the catch
\* clause handled, or with an error and no catch clause; in the last case
\* the statement still returns an error, the body's own if the finally
\* clause completed.
C4_FinallyRunsOnce ==
    \A i \in TryExits :
        LET ev == Log[i] IN
        ev.has_finally /\ ev.at # "catch" =>
            /\ FinallyRuns(ev.id, 1) = 1
            /\ \A j \in 1..ev.fin_len :
                   /\ FinallyRuns(ev.id, j) <= 1
                   /\ ev.at = "end" => FinallyRuns(ev.id, j) = 1
            /\ \A a, b \in Events("stmt") :
                   /\ Log[a].id = ev.id /\ Log[a].in \in {"try", "catch"}
                   /\ Log[b].id = ev.id /\ Log[b].in = "finally"
                   => a < b
            /\ ~ev.body_ok /\ ~ev.has_catch =>
                   /\ ~ev.ok
                   /\ ev.at = "end" => ev.msg = ev.body_msg

\* a try statement without a catch clause whose body raised an error has
\* run its finally clause and returned the error
C4_Witness ==
    \E i \in TryExits :
        /\ Log[i].has_finally /\ ~Log[i].has_catch /\ ~Log[i].body_ok
        /\ FinallyRuns(Log[i].id, 1) = 1
        /\ ~Log[i].ok /\ Log[i].msg = "boom"

C9_CaughtMeansOk ==
    \A i \in TryExits :
        ~Log[i].body_ok /\ Log[i].has_catch /\ Log[i].at # "catch" => Log[i].ok

\* C9 as amended: the message of a throw is the thrown string, or "Thrown
\* error" when the value is no string; when the catch body starts, the
\* catch variable is bound to the string that is the message the body
\* failed with; and when the catch body and the finally clause (if any)
\* complete without error, the try statement returns Ok to the construct
\* around it.
C9_CatchBindsMessage ==
    /\ \A i \in Events("throw") :
           Log[i].msg = IF Log[i].val.t = "String" THEN Log[i].val.s
                        ELSE "Thrown error"
    /\ \A i \in Events("catch") :
           /\ Log[i].bound.ok /\ Log[i].bound.val = Str(Log[i].msg)
           /\ i > 1 /\ Log[i - 1].e = "stmt" /\ Log[i - 1].in = "try"
           /\ Log[i - 1].id = Log[i].id
           /\ ~Log[i - 1].ok /\ Log[i - 1].msg = Log[i].msg
    /\ \A i \in TryExits :
           ~Log[i].body_ok /\ Log[i].has_catch /\ Log[i].at = "end" =>
               /\ Log[i].ok
               /\ i < Len(Log) /\ Log[i + 1].e = "stmt" /\ Log[i + 1].ok

\* a number was thrown and caught: the catch variable held "Thrown error",
\* the try statement returned Ok and interpret went on to its end
C9_Witness ==
    /\ \E i \in Events("catch") :
           /\ Log[i].msg = "Thrown error"
           /\ Log[i].bound.val = Str("Thrown error")
           /\ \E k \in TryExits :
                  Log[k].id = Log[i].id /\ Log[k].at = "end" /\ Log[k].ok
    /\ result.done /\ result.ok

\* C10: a variable declaration for a name that some frame binds overwrites
\* the binding in the innermost such frame and changes nothing else (no
\* binding is added to the top frame); for a name that no frame binds it
\* adds the binding to the top frame and changes nothing else.
C10_DeclarationRebinds ==
    \A i \in Events("decl") :
        LET name == Log[i].name
            B == Log[i].before
            A == Log[i].after
            top == Len(B)
            holders == { f \in 1..top : name \in DOMAIN B[f] }
            f == IF holders # {} THEN Max(holders) ELSE top
        IN /\ Len(A) = top
           /\ \A j \in 1..top : j # f => A[j] = B[j]
           /\ DOMAIN A[f] = IF holders # {} THEN DOMAIN B[f]
                            ELSE DOMAIN B[f] \cup {name}
           /\ A[f][name] = Log[i].val
           /\ \A n \in DOMAIN B[f] : n # name => A[f][n] = B[f][n]

\* x was declared in an inner scope while only the global frame bound it,
\* and the print of x at the end, after that scope was popped, printed the
\* declared value
C10_Witness ==
    /\ \E i \in Events("decl") :
           /\ Log[i].name = "x" /\ Log[i].val = Num(2)
           /\ Len(Log[i].before) >= 2
           /\ "x" \notin DOMAIN Log[i].before[Len(Log[i].before)]
    /\ Depth(interp) = 1
    /\ result.done /\ result.ok /\ result.text = "2"

(***************************************************************************)
(* The environment on its own: any sequence of at most MaxCalls calls of   *)
(* push_scope, pop_scope, define and assign on the environment of a new    *)
(* interpreter.  Each call is an "env" event with the scopes before and    *)
(* after it; result is what the call returned.                             *)
(***************************************************************************)
MaxCalls == 4

EnvNames == {"x", "y"}
EnvValues == {Num(1), Num(2)}

EnvInit ==
    /\ statements = <<>>
    /\ pc = 1
    /\ interp = InterpreterNew
    /\ output = <<>>
    /\ result = Running
    /\ lexer = LexerNew(<<>>)
    /\ tokens = <<>>
    /\ parser = ParserNew(<<>>)
    /\ stdin = <<>>

\* the call op(name, value) has returned r
EnvCall(op, name, value, r) ==
    /\ interp' = Emit([interp EXCEPT !.scopes = r.scopes],
                      [e |-> "env", op |-> op, name |-> name, value |-> value,
                       ok |-> r.ok, msg |-> r.msg,
                       before |-> interp.scopes, after |-> r.scopes])
    /\ result' = IF r.ok THEN Ok("") ELSE Err(r.msg)
    /\ UNCHANGED <<statements, pc, output, lexer, tokens, parser, stdin>>

EnvPush ==
    /\ Len(interp.log) < MaxCalls
    /\ EnvCall("push_scope", "", Nil,
               [ok |-> TRUE, scopes |-> push_scope(interp.scopes), msg |-> ""])

EnvPop ==
    /\ Len(interp.log) < MaxCalls
    /\ EnvCall("pop_scope", "", Nil, pop_scope(interp.scopes))

EnvDefine ==
    /\ Len(interp.log) < MaxCalls
    /\ \E name \in EnvNames, value \in EnvValues :
          EnvCall("define", name, value,
                  [ok |-> TRUE, scopes |-> define(interp.scopes, name, value),
                   msg |-> ""])

EnvAssign ==
    /\ Len(interp.log) < MaxCalls
    /\ \E name \in EnvNames, value \in EnvValues :
          EnvCall("assign", name, value, assign(interp.scopes, name, value))

EnvNext == EnvPush \/ EnvPop \/ EnvDefine \/ EnvAssign

EnvSpec == EnvInit /\ [][EnvNext]_vars

EnvCalls(op) == { i \in Events("env") : Log[i].op = op }

\* C11: pop_scope on an environment that holds only the global frame
\* returns the error and leaves the stack as it was, and the environment
\* has at least one frame after any sequence of calls.
C11_GlobalFrameStays ==
    /\ Len(interp.scopes) >= 1
    /\ \A i \in EnvCalls("pop_scope") :
          /\ Len(Log[i].after) >= 1
          /\ Len(Log[i].before) = 1 =>
                /\ ~Log[i].ok
                /\ Log[i].msg = "Can't pop global scope bestie, that's the foundation!"
                /\ Log[i].after = Log[i].before
          /\ Len(Log[i].before) > 1 =>
                /\ Log[i].ok
                /\ Log[i].after = SubSeq(Log[i].before, 1, Len(Log[i].before) - 1)

\* pop_scope was called on the global frame alone after it had got a binding
C11_Witness ==
    \E i \in EnvCalls("pop_scope") :
        /\ Len(Log[i].before) = 1
        /\ DOMAIN Log[i].before[1] # {}
        /\ ~result.ok

\* the frames of scopes that contain name
Holding(scopes, name) == { j \in DOMAIN scopes : name \in DOMAIN scopes[j] }

\* C12: assign writes the value into the innermost frame that contains the
\* name and changes no other frame and no other binding; when no frame
\* contains the name it returns an error and changes nothing.
C12_AssignWritesInnermost ==
    \A i \in EnvCalls("assign") :
        LET before == Log[i].before
            after == Log[i].after
            holding == Holding(before, Log[i].name)
        IN IF holding = {}
           THEN ~Log[i].ok /\ after = before
           ELSE /\ Log[i].ok
                /\ Len(after) = Len(before)
                /\ \A j \in DOMAIN before :
                      /\ DOMAIN after[j] = DOMAIN before[j]
                      /\ \A k \in DOMAIN before[j] :
                            after[j][k] = IF j = Max(holding) /\ k = Log[i].name
                                          THEN Log[i].value
                                          ELSE before[j][k]

\* an assignment of a new value to a name that two frames contain
C12_Witness ==
    \E i \in EnvCalls("assign") :
        /\ Cardinality(Holding(Log[i].before, Log[i].name)) = 2
        /\ \A j \in Holding(Log[i].before, Log[i].name) :
              Log[i].before[j][Log[i].name] # Log[i].value
        /\ Log[i].ok

(***************************************************************************)
(* Calls: a program that may declare a variable and a function of one      *)
(* name, a builtin's or not, and then prints a call of that name with at   *)
(* most MaxArgs arguments.  The declared function takes as many            *)
(* parameters as the call has arguments.                                   *)
(***************************************************************************)
MaxArgs == 2

ArgExprs == { NumE(4), Unary("Minus", NumE(4)), StrE("a,b"), StrE(",") }
ArgLists == UNION { [1..n -> ArgExprs] : n \in 0..MaxArgs }
CallNames == BuiltinNames \cup {"g"}
Params(n) == [i \in 1..n |-> "p" \o ToString(i)]
UserBody == << PrintStmt(StrE("user")), Return(Present(StrE("user"))) >>

CallProgram(name, decls, args) ==
    (IF "variable" \in decls THEN <<VarDeclaration(name, Present(NumE(5)))>> ELSE <<>>)
    \o (IF "function" \in decls
        THEN <<Function(name, Params(Len(args)), UserBody)>> ELSE <<>>)
    \o <<PrintStmt(Call(Variable(name), args))>>

CallInit ==
    /\ \E name \in CallNames, decls \in SUBSET {"variable", "function"},
          args \in ArgLists : statements = CallProgram(name, decls, args)
    /\ pc = 1
    /\ interp = InterpreterNew
    /\ output = <<>>
    /\ result = Running
    /\ lexer = LexerNew(<<>>)
    /\ tokens = <<>>
    /\ parser = ParserNew(<<>>)
    /\ stdin = <<>>

CallSpec == CallInit /\ [][Next]_vars

\* the name the program calls, and what it declares
Called == statements[Len(statements)].expr.callee.name
Declares(k) == \E i \in DOMAIN statements : statements[i].k = k
UserRan == CallExits # {} \/ \E i \in Events("print") : Log[i].s = "user"

\* C13: a call of a builtin's name runs the builtin, never the body of a
\* function the user declared under that name; a call of another name runs
\* the declared function, or fails when none is declared; a variable of
\* the same name changes nothing of this.
C13_BuiltinsBeforeTable ==
    IF Called \in BuiltinNames
    THEN /\ ~UserRan
         /\ \A i \in Events("builtin") : Log[i].name = Called
         /\ result.done => Cardinality(Events("builtin")) = 1
    ELSE /\ Events("builtin") = {}
         /\ result.done =>
              IF Declares("Function")
              THEN /\ Cardinality(CallExits) = 1
                   /\ result = Ok("user")
              ELSE /\ ~UserRan
                   /\ result = Err("Undefined function '" \o Called
                                   \o "', that function doesn't exist bestie!")

\* length("a,b") has yielded 3 in a program that declares a function and a
\* variable called length
C13_Witness ==
    /\ Called = "length"
    /\ Declares("Function") /\ Declares("VarDeclaration")
    /\ "length" \in DOMAIN interp.functions
    /\ get(interp.scopes, "length").ok
    /\ result = Ok("3")

(***************************************************************************)
(* Switch statements: a scrutinee, at most MaxCases cases and maybe a      *)
(* default clause.  The body of the case at position i is empty, prints    *)
(* "case i", or throws; the default clause prints "default".               *)
(***************************************************************************)
MaxCases == 2

Scrutinees == 1..3
CaseValues == 1..2
CaseKinds == {"empty", "print", "break", "throw"}
CaseShapes == UNION { [1..n -> CaseValues \X CaseKinds] : n \in 0..MaxCases }

CaseStatements(kind, i) ==
    CASE kind = "empty" -> <<>>
      [] kind = "print" -> <<PrintStmt(StrE("case " \o ToString(i)))>>
      [] kind = "break" -> <<Throw(StrE("heartbreak")), PrintStmt(StrE("case " \o ToString(i)))>>
      [] kind = "throw" -> <<Throw(StrE("boom"))>>

SwitchProgram(scrutinee, shape, default) ==
    << Switch(NumE(scrutinee),
              [i \in DOMAIN shape |->
                   [expr |-> NumE(shape[i][1]),
                    statements |-> CaseStatements(shape[i][2], i)]],
              default),
       PrintStmt(StrE("end")) >>

SwitchInit ==
    /\ \E scrutinee \in Scrutinees, shape \in CaseShapes,
          default \in {Absent, Present(<<PrintStmt(StrE("default"))>>)} :
          statements = SwitchProgram(scrutinee, shape, default)
    /\ pc = 1
    /\ interp = InterpreterNew
    /\ output = <<>>
    /\ result = Running
    /\ lexer = LexerNew(<<>>)
    /\ tokens = <<>>
    /\ parser = ParserNew(<<>>)
    /\ stdin = <<>>

SwitchSpec == SwitchInit /\ [][Next]_vars

\* the program's switch statement; the positions of the cases whose value
\* is the scrutinee's; the first of them (0: no case matches)
TheSwitch == statements[1]
Matching ==
    { i \in DOMAIN TheSwitch.cases : TheSwitch.cases[i].expr.v.n = TheSwitch.expr.v.n }
FirstMatch == IF Matching = {} THEN 0 ELSE CHOOSE i \in Matching : \A j \in Matching : i <= j

\* C14: in one execution of a switch statement at most one clause body
\* runs: that of the first case whose value equals the scrutinee, and the
\* default body only when no case matched.
C14_OneClauseRuns ==
    /\ Cardinality(Events("case")) + Cardinality(Events("default")) <= 1
    /\ \A e \in Events("case") : Log[e].idx = FirstMatch
    /\ Events("default") # {} => FirstMatch = 0 /\ TheSwitch.default.some
    /\ \A e \in Events("print") :
          Log[e].s \in {"end"} \cup
                       (IF FirstMatch = 0 THEN {"default"}
                        ELSE {"case " \o ToString(FirstMatch)})
    /\ pc > 1 =>
          /\ FirstMatch # 0 => Cardinality(Events("case")) = 1
          /\ FirstMatch = 0 /\ TheSwitch.default.some =>
                \E e \in Events("print") : Log[e].s = "default"

\* the first of two cases of the scrutinee's value has printed, in a
\* switch that has a default clause, and the switch has returned
C14_Witness ==
    /\ pc > 1
    /\ Cardinality(Matching) = 2
    /\ TheSwitch.default.some
    /\ \E e \in Events("print") : Log[e].s = "case 1"
    /\ \E e \in SwitchExits : Log[e].ok

(***************************************************************************)
(* && and ||: a program that prints `left op right`.  An operand is a      *)
(* boolean literal, an assignment of one to the operand's variable (l for  *)
(* the left operand, r for the right one), a call of a function that       *)
(* assigns one to that variable and returns it, or an undefined variable   *)
(* (ul, ur).                                                               *)
(***************************************************************************)
BoolE(b) == Literal(Bool(b))
OperandKinds == {"literal", "assign", "call", "undefined"}

Setter(var, b) ==
    Function(var \o (IF b THEN "t" ELSE "f"), <<>>,
             << Expression(AssignE(var, BoolE(b))), Return(Present(BoolE(b))) >>)

Operand(kind, var, b) ==
    CASE kind = "literal" -> BoolE(b)
      [] kind = "assign" -> AssignE(var, BoolE(b))
      [] kind = "call" -> Call(Variable(var \o (IF b THEN "t" ELSE "f")), <<>>)
      [] kind = "undefined" -> Variable("u" \o var)

LogicPrelude ==
    << VarDeclaration("l", Absent), VarDeclaration("r", Absent),
       Setter("l", TRUE), Setter("l", FALSE), Setter("r", TRUE), Setter("r", FALSE) >>

LogicProgram(left, operator, right) ==
    LogicPrelude \o << PrintStmt(Binary(left, operator, right)) >>

LogicInit ==
    /\ \E lk \in OperandKinds, rk \in OperandKinds, lb \in BOOLEAN, rb \in BOOLEAN,
          operator \in {"And", "Or"} :
          statements = LogicProgram(Operand(lk, "l", lb), operator, Operand(rk, "r", rb))
    /\ pc = 1
    /\ interp = InterpreterNew
    /\ output = <<>>
    /\ result = Running
    /\ lexer = LexerNew(<<>>)
    /\ tokens = <<>>
    /\ parser = ParserNew(<<>>)
    /\ stdin = <<>>

LogicSpec == LogicInit /\ [][Next]_vars

\* the printed expression; what an operand does, read off its shape
Printing == statements[Len(LogicPrelude) + 1].expr
Fails(e) == e.k = "Variable"
Touches(e) == e.k \in {"Assign", "Call"}
Yields(e) ==
    CASE e.k = "Literal" -> e.v.b
      [] e.k = "Assign" -> e.value.v.b
      [] e.k = "Call" -> e.callee.name \in {"lt", "rt"}
Undefined(name) ==
    Err("Undefined variable '" \o name \o "', you haven't declared this bestie!")
Global(name) == interp.scopes[1][name]

\* C15: both operands of && and || are evaluated, the left one first,
\* whatever the left operand's value: the right operand's assignment or
\* call has taken effect, or its error is the result.
C15_BothOperandsEvaluated ==
    pc > Len(LogicPrelude) + 1 =>
        IF Fails(Printing.left)
        THEN result = Undefined("ul") /\ Global("r") = Nil
        ELSE /\ Touches(Printing.left) => Global("l") = Bool(Yields(Printing.left))
             /\ IF Fails(Printing.right)
                THEN result = Undefined("ur")
                ELSE /\ Touches(Printing.right) =>
                          Global("r") = Bool(Yields(Printing.right))
                     /\ output = << Display(Bool(IF Printing.operator = "And"
                                                 THEN Yields(Printing.left)
                                                      /\ Yields(Printing.right)
                                                 ELSE Yields(Printing.left)
                                                      \/ Yields(Printing.right))) >>

\* `cap && rt()` has run: the call has assigned r, and cap is printed
C15_Witness ==
    /\ pc > Len(LogicPrelude) + 1
    /\ Printing.operator = "And"
    /\ Printing.left = BoolE(FALSE)
    /\ Printing.right.k = "Call"
    /\ Global("r") = Bool(TRUE)
    /\ output = <<"cap">>

(***************************************************************************)
(* == and !=: a program that prints `left == right` or `left != right`     *)
(* for operands of every value type.                                       *)
(***************************************************************************)
EqualOperands ==
    { NumE(0), NumE(1), StrE(""), StrE("a"), BoolE(TRUE), BoolE(FALSE), Literal(Nil),
      ArrayE(<<>>), ArrayE(<<NumE(1)>>), ObjectE(<<>>), ObjectE(<< <<"k", NumE(1)>> >>) }

EqualProgram(left, operator, right) == << PrintStmt(Binary(left, operator, right)) >>

EqualInit ==
    /\ \E left \in EqualOperands, right \in EqualOperands,
          operator \in {"Equal", "NotEqual"} :
          statements = EqualProgram(left, operator, right)
    /\ pc = 1
    /\ interp = InterpreterNew
    /\ output = <<>>
    /\ result = Running
    /\ lexer = LexerNew(<<>>)
    /\ tokens = <<>>
    /\ parser = ParserNew(<<>>)
    /\ stdin = <<>>

EqualSpec == EqualInit /\ [][Next]_vars

\* the value type of an operand, read off its expression
TypeOf(e) ==
    CASE e.k = "Literal" -> e.v.t
      [] e.k = "Array" -> "Array"
      [] e.k = "Object" -> "Object"

\* C16: for operands of two different value types == is false and != is
\* true, and no error is raised.
C16_MixedTypesCompare ==
    /\ pc > 1
    /\ TypeOf(statements[1].expr.left) # TypeOf(statements[1].expr.right)
    => /\ ~(result.done /\ ~result.ok)
       /\ output = << IF statements[1].expr.operator = "Equal" THEN "cap" ELSE "fr" >>

(***************************************************************************)
(* Indexing: a program that prints `array[index]` for an array literal of  *)
(* at most MaxLen elements and an index from -MaxLen to MaxLen + 1.  A     *)
(* negative index is the negation of a literal, as the parser builds it.   *)
(***************************************************************************)
MaxLen == 2

Elements == {10, 20, 30}
ArrayLiterals == UNION { [1..n -> { NumE(v) : v \in Elements }] : n \in 0..MaxLen }
IndexE(i) == IF i < 0 THEN Unary("Minus", NumE(0 - i)) ELSE NumE(i)

IndexProgram(elements, i) == << PrintStmt(Index(ArrayE(elements), IndexE(i))) >>

IndexInit ==
    /\ \E elements \in ArrayLiterals, i \in (0 - MaxLen)..(MaxLen + 1) :
          statements = IndexProgram(elements, i)
    /\ pc = 1
    /\ interp = InterpreterNew
    /\ output = <<>>
    /\ result = Running
    /\ lexer = LexerNew(<<>>)
    /\ tokens = <<>>
    /\ parser = ParserNew(<<>>)
    /\ stdin = <<>>

IndexSpec == IndexInit /\ [][Next]_vars

\* the index and the array's length, read off the program
TheIndex ==
    IF statements[1].expr.index.k = "Unary" THEN 0 - statements[1].expr.index.right.v.n
    ELSE statements[1].expr.index.v.n
TheLength == Len(statements[1].expr.object.elements)

\* C17: indexing an array with a number outside 0..length-1, negative
\* numbers included, raises the out-of-bounds error and yields no element.
C17_OutOfBoundsIsAnError ==
    /\ pc > 1
    /\ TheIndex < 0 \/ TheIndex >= TheLength
    => /\ result = Err("Array index out of bounds bestie!")
       /\ output = <<>>

(***************************************************************************)
(* Lexer::tokenize on a new Lexer, one turn of its loop per step.  The     *)
(* sources are made of the words of the multi-word keywords, whitespace,   *)
(* a separator, a digit and a quote.                                       *)
(***************************************************************************)
MaxSegments == 3

Segments ==
    {lowkey, no, vibe, sus, chill, check,
     <<" ">>, <<"\n">>, <<";">>, <<"1">>, <<"\"">>}

RECURSIVE Flatten(_)
Flatten(segments) ==
    IF segments = <<>> THEN <<>> ELSE Head(segments) \o Flatten(Tail(segments))

Sources == { Flatten(f) : f \in UNION { [1..n -> Segments] : n \in 0..MaxSegments } }

Panicked == [done |-> TRUE, ok |-> FALSE, text |-> "panic", msg |-> "index out of bounds"]

LexInit ==
    /\ \E source \in Sources : lexer = LexerNew(source)
    /\ tokens = <<>>
    /\ parser = ParserNew(<<>>)
    /\ stdin = <<>>
    /\ statements = <<>>
    /\ pc = 1
    /\ interp = InterpreterNew
    /\ output = <<>>
    /\ result = Running

\* lines 34-42: scan_token has returned r; l is the lexer it started from
Tokenized(l, r) ==
    /\ lexer' = r.l
    /\ tokens' = IF r.kind = "token"
                 THEN Append(tokens, TokenNew(r.tok, l.line, l.column))
                 ELSE tokens
    /\ result' = CASE r.kind = "error" -> Err(r.msg)
                   [] r.kind = "panic" -> Panicked
                   [] OTHER -> Running

\* lines 30-42: l is the lexer after skip_whitespace
TokenizeTurn(l) ==
    IF is_at_end(l) THEN lexer' = l /\ UNCHANGED <<tokens, result>>
    ELSE Tokenized(l, scan_token(l))

\* lines 27-43: one turn of the loop
TokenizeStep ==
    /\ ~result.done
    /\ ~is_at_end(lexer)
    /\ TokenizeTurn(skip_whitespace(lexer))
    /\ UNCHANGED <<statements, pc, interp, output, parser, stdin>>

\* lines 45-46: the loop is over
TokenizeEnd ==
    /\ ~result.done
    /\ is_at_end(lexer)
    /\ tokens' = Append(tokens, TokenNew(Tok("Eof"), lexer.line, lexer.column))
    /\ result' = Ok("")
    /\ UNCHANGED <<statements, pc, interp, output, lexer, parser, stdin>>

LexNext == TokenizeStep \/ TokenizeEnd

LexSpec == LexInit /\ [][LexNext]_vars

\* the words identifier read whose lookahead found no permitted second word
Permitted(e) == e.next.some /\ e.next.word \in DOMAIN SecondWords[e.text]
Misses ==
    { i \in 1..Len(lexer.log) :
        lexer.log[i].text \in {lowkey, no, vibe} /\ ~Permitted(lexer.log[i]) }

\* the token of the first word alone
FirstToken(text) ==
    CASE text = lowkey -> Tok("Lowkey")
      [] text = vibe -> Tok("Vibe")
      [] text = no -> IdentifierTok(no)

NewlineAt(line) ==
    \E j \in 1..Len(tokens) :
        tokens[j].token_type = Tok("Newline") /\ tokens[j].line = line

\* C18: when the word after lowkey, no or vibe is not a permitted second
\* word, identifier returns the first word's token and leaves position, line
\* and column where they were right after the first word; once the lexer
\* has passed the whitespace looked over, each newline in it has its
\* NEWLINE token.
C18_FailedLookaheadChangesNothing ==
    \A i \in Misses :
        /\ lexer.log[i].tok = FirstToken(lexer.log[i].text)
        /\ lexer.log[i].after = lexer.log[i].before
        /\ SubSeq(lexer.source,
                  lexer.log[i].after.current - Len(lexer.log[i].text) + 1,
                  lexer.log[i].after.current) = lexer.log[i].text
        /\ lexer.current >= lexer.log[i].until =>
               \A k \in 0..(lexer.log[i].newlines - 1) :
                   NewlineAt(lexer.log[i].before.line + k)

C18_Witness ==
    \E i \in Misses :
        /\ lexer.log[i].newlines > 0
        /\ lexer.log[i].next.some
        /\ result = Ok("")

(***************************************************************************)
(* Programs that leave a block, a for loop or a function body by a signal  *)
(* after a try statement of that construct has handled, or not, an error.  *)
(***************************************************************************)
Outers == {"block", "for", "call"}
Inners == {"block", "for", "call", "while"}
ScopeLeaves == { Throw(StrE("t")), PrintStmt(StrE("p")) }
Signals == { Return(Present(NumE(7))), Return(Absent), Break, Continue }

ScopeProgram(outer, inner, leaf, signal) ==
    Prelude
    \o Wrap(outer, Wrap("try_catch", Wrap(inner, <<leaf>>, 3), 2) \o <<signal>>, 1)
    \o <<PrintStmt(Variable("x"))>>

ScopeInit ==
    /\ \E outer \in Outers, inner \in Inners, leaf \in ScopeLeaves, signal \in Signals :
          statements = ScopeProgram(outer, inner, leaf, signal)
    /\ pc = 1
    /\ interp = InterpreterNew
    /\ output = <<>>
    /\ result = Running
    /\ lexer = LexerNew(<<>>)
    /\ tokens = <<>>
    /\ parser = ParserNew(<<>>)
    /\ stdin = <<>>

ScopeSpec == ScopeInit /\ [][Next]_vars

\* the event of the last statement the construct of exit event i executed
LastStmt(i) == IF Log[i - 1].e = "consume" THEN i - 2 ELSE i - 1

\* the signals that end the statement loop of each construct (lines 80-82,
\* 137-147, 451-455)
EndsLoop(kind, ev) ==
    CASE kind = "block" -> ev.ret \/ ev.brk \/ ev.cont
      [] kind = "for" -> ev.brk \/ (~ev.cont /\ ev.ret)
      [] kind = "call" -> ev.ret

\* the exits of blocks, for loops and calls whose last statement returned
\* with a signal that ended their loop
SignalExits ==
    { i \in Events("exit") :
        /\ Log[i].kind \in {"block", "for", "call"}
        /\ Log[i].ok
        /\ LastStmt(i) >= 1
        /\ Log[LastStmt(i)].e = "stmt"
        /\ Log[LastStmt(i)].in = Log[i].kind
        /\ Log[LastStmt(i)].id = Log[i].id
        /\ EndsLoop(Log[i].kind, Log[LastStmt(i)]) }

\* C19: when a block, a for loop or a function body is left because of a
\* return, break or continue signal, the scope depth after the construct
\* equals the depth before it.
C19_SignalExitRestoresDepth ==
    \A i \in SignalExits : Log[i].d1 = Log[i].d0

(***************************************************************************)
(* The statements that run between a return statement and the end of the   *)
(* call it was executed in (programs of Spec).                             *)
(***************************************************************************)
\* the index of the "exit" event of the call in which return event i was
\* executed; past the end of the log while the call has not returned
Yield(i) ==
    IF \E k \in CallExits : k > i /\ Log[k].id = Log[i].call
    THEN CHOOSE k \in CallExits :
            /\ k > i /\ Log[k].id = Log[i].call
            /\ \A m \in CallExits : m > i /\ Log[m].id = Log[i].call => k <= m
    ELSE Len(Log) + 1

\* after return event i and before its call yields, the construct that ran
\* statement j1 went on to a later statement j2
GoesOn(i, j1, j2) ==
    /\ i < j1 /\ j1 < j2 /\ j2 < Yield(i)
    /\ Log[j1].in = Log[j2].in
    /\ Log[j1].id = Log[j2].id
    /\ Log[j1].idx < Log[j2].idx

\* C20: after a return statement has executed in a function body, no
\* construct of that call goes on to a further statement before the call
\* yields, the statements of a finally clause excepted.
C20_NothingRunsAfterReturn ==
    \A i \in Events("return") :
        Log[i].call # 0 =>
            \A j1, j2 \in Events("stmt") :
                GoesOn(i, j1, j2) => Log[j1].in = "finally"

\* C21: an error raised by a statement of a matched case makes the switch
\* statement fail with that error, whatever its message.
C21_CaseErrorFailsTheSwitch ==
    \A i \in Events("stmt") :
        Log[i].in = "case" /\ ~Log[i].ok =>
            \A k \in SwitchExits :
                k > i /\ Log[k].id = Log[i].id =>
                    ~Log[k].ok /\ Log[k].msg = Log[i].msg

(***************************************************************************)
(* Programs that compare the same two values twice: as the scrutinee and   *)
(* the case value of a switch statement, and as the operands of ==.  The   *)
(* variable n is declared without initializer and holds nil.               *)
(***************************************************************************)
AgreeOperands == (EqualOperands \ {Literal(Nil)}) \cup {Variable("n")}

AgreeProgram(left, right) ==
    << VarDeclaration("n", Absent),
       Switch(left,
              << [expr |-> right, statements |-> <<PrintStmt(StrE("case"))>>] >>,
              Present(<<PrintStmt(StrE("default"))>>)),
       PrintStmt(Binary(left, "Equal", right)) >>

AgreeInit ==
    /\ \E left \in AgreeOperands, right \in AgreeOperands :
          statements = AgreeProgram(left, right)
    /\ pc = 1
    /\ interp = InterpreterNew
    /\ output = <<>>
    /\ result = Running
    /\ lexer = LexerNew(<<>>)
    /\ tokens = <<>>
    /\ parser = ParserNew(<<>>)
    /\ stdin = <<>>

AgreeSpec == AgreeInit /\ [][Next]_vars

\* C22: when == raises no error on the two values, the switch statement
\* selects the case exactly when == yields true.
C22_SwitchAgreesWithEqual ==
    pc > 3 /\ (result.done => result.ok) =>
        (Events("case") # {} <=> output = <<"fr">>)

(***************************************************************************)
(* Programs whose try body sets a signal and whose finally clause holds    *)
(* prints, declarations and calls of f only.                               *)
(***************************************************************************)
Finallys ==
    { <<PrintStmt(StrE("fin"))>>, <<CallStmt("f")>>,
      <<PrintStmt(StrE("fin")), CallStmt("f")>>,
      <<VarDeclaration("y", Present(NumE(3)))>> }
Catches == { Absent, CatchClause("e", PrintE) }
Arounds == {"top", "block", "for", "call"}

Around(w, b) == IF w = "top" THEN b ELSE Wrap(w, b, 1)

FinallyProgram(w, signal, catch_block, finally_stmts) ==
    Prelude
    \o Around(w, <<Try(<<signal>>, catch_block, Present(finally_stmts))>>)
    \o <<PrintStmt(Variable("x"))>>

FinallyInit ==
    /\ \E w \in Arounds, signal \in Signals, catch_block \in Catches,
          finally_stmts \in Finallys :
          statements = FinallyProgram(w, signal, catch_block, finally_stmts)
    /\ pc = 1
    /\ interp = InterpreterNew
    /\ output = <<>>
    /\ result = Running
    /\ lexer = LexerNew(<<>>)
    /\ tokens = <<>>
    /\ parser = ParserNew(<<>>)
    /\ stdin = <<>>

FinallySpec == FinallyInit /\ [][Next]_vars

\* C23: a signal that the try body set is still set, with the same return
\* value, when the try statement finishes (the finally clauses of these
\* programs hold no return, break, continue or loop).
C23_FinallyKeepsSignals ==
    \A i \in TryExits :
        /\ Log[i].pending1.return_value.some /\ ~Log[i].pending0.return_value.some
              => Log[i].pending2.return_value = Log[i].pending1.return_value
        /\ Log[i].pending1.should_break /\ ~Log[i].pending0.should_break
              => Log[i].pending2.should_break
        /\ Log[i].pending1.should_continue /\ ~Log[i].pending0.should_continue
              => Log[i].pending2.should_continue

(***************************************************************************)
(* Parser::parse on a new Parser, one turn of its loop per step.  The      *)
(* token lists are a few tokens at the top level, inside a block or        *)
(* inside the braces of a switch statement on 1, and the final EOF.        *)
(***************************************************************************)
MaxTokens == 3

default == <<"d", "e", "f", "a", "u", "l", "t">>
One == [whole |-> 1, frac |-> <<>>]

TokenAlphabet ==
    { Tok("Vibe"), Tok("Semicolon"), Tok("Newline"), Tok("Colon"), Tok("Bruh"),
      Tok("LeftParen"), Tok("RightParen"), NumberTok(One),
      IdentifierTok(<<"x">>), IdentifierTok(default) }

TokenBodies == UNION { [1..n -> TokenAlphabet] : n \in 0..MaxTokens }

Contexts == {"top", "block", "switch"}
Opening(context) ==
    CASE context = "top" -> <<>>
      [] context = "block" -> <<Tok("LeftBrace")>>
      [] context = "switch" ->
           <<Tok("VibeCheck"), Tok("LeftParen"), NumberTok(One), Tok("RightParen"),
             Tok("LeftBrace")>>
Closing(context) == IF context = "top" THEN <<>> ELSE <<Tok("RightBrace")>>

\* the tokens of the given types as tokenize lays them out: the line of a
\* token is one more than the NEWLINE tokens before it
Laid(types) ==
    [i \in 1..Len(types) |->
        TokenNew(types[i],
                 1 + Cardinality({ j \in 1..(i - 1) : types[j] = Tok("Newline") }),
                 i)]

TokenList(context, body) ==
    Laid(Opening(context) \o body \o Closing(context) \o <<Tok("Eof")>>)

ParseInit ==
    /\ \E context \in Contexts, body \in TokenBodies :
          /\ tokens = TokenList(context, body)
          /\ parser = ParserNew(TokenList(context, body))
    /\ statements = <<>>
    /\ pc = 1
    /\ interp = InterpreterNew
    /\ output = <<>>
    /\ result = Running
    /\ lexer = LexerNew(<<>>)
    /\ stdin = <<>>

\* line 27: declaration has returned d
ParsedDeclaration(d) ==
    /\ parser' = d.p
    /\ statements' = IF d.ok THEN Append(statements, d.x) ELSE statements
    /\ result' = IF d.ok THEN Running ELSE Err(d.msg)

\* lines 21-28: one turn of the loop
ParseStep ==
    /\ ~result.done
    /\ ~parser_is_at_end(parser)
    /\ IF parser_check(parser, "Newline")
       THEN parser' = parser_advance(parser) /\ UNCHANGED <<statements, result>>
       ELSE ParsedDeclaration(declaration(parser))
    /\ UNCHANGED <<pc, interp, output, lexer, tokens, stdin>>

\* line 30: the loop is over
ParseEnd ==
    /\ ~result.done
    /\ parser_is_at_end(parser)
    /\ result' = Ok("")
    /\ UNCHANGED <<statements, pc, interp, output, lexer, tokens, parser, stdin>>

ParseNext == ParseStep \/ ParseEnd

ParseSpec == ParseInit /\ [][ParseNext]_vars

Types == [i \in 1..Len(tokens) |-> tokens[i].token_type]

\* the switch statement's first clause is an identifier other than default
\* and a colon
IdentifierClause ==
    /\ Len(tokens) >= 7
    /\ SubSeq(Types, 1, 5) = Opening("switch")
    /\ Types[6].type = "Identifier"
    /\ Types[6].text # default
    /\ Types[7] = Tok("Colon")

\* C24: a clause of a switch body that begins with an identifier other
\* than default is parsed as a case whose value is that expression.
C24_OnlyDefaultIsDefault ==
    result.done /\ result.ok /\ IdentifierClause =>
        /\ statements[1].cases # <<>>
        /\ statements[1].cases[1].expr = Variable(Concat(Types[6].text))

\* a return without expression, directly before a terminator
Terminators == { <<>>, <<Tok("Semicolon")>>, <<Tok("Newline")>> }
BareReturn(context) ==
    \E end \in Terminators :
        Types = Opening(context) \o <<Tok("Vibe")>> \o end \o Closing(context)
                   \o <<Tok("Eof")>>

\* C25: a return without expression followed by ;, NEWLINE, the end of the
\* input or a closing brace is accepted and parses to a return with no
\* expression.
C25_BareReturnAccepted ==
    /\ result.done /\ BareReturn("top") =>
           result.ok /\ statements = <<Return(Absent)>>
    /\ result.done /\ BareReturn("block") =>
           result.ok /\ statements = <<Block(<<Return(Absent)>>)>>

(***************************************************************************)
(* Programs with one loop whose body is a block, a try statement, a switch *)
(* statement or a single statement, at the top level or in a function.     *)
(***************************************************************************)
LoopLeaves ==
    { Break, Continue, Return(Present(NumE(7))), PrintStmt(StrE("a")),
      Throw(StrE("boom")) }
LoopStmts == UNION { [1..n -> LoopLeaves] : n \in 1..MaxBody }

LoopBodyKinds == {"block", "try_catch", "try_finally", "case", "default", "bare"}

\* the statement that is the body of the loop
LoopBody(kind, b) ==
    IF kind = "bare" THEN b[1]
    ELSE IF kind = "block" THEN Block(b)
    ELSE Wrap(kind, b, 1)[1]

Step == Expression(AssignE("i", Binary(Variable("i"), "Add", NumE(1))))

Loop(loop, kind, b) ==
    IF loop = "while"
    THEN << VarDeclaration("i", Present(NumE(0))),
            While(Binary(Variable("i"), "Less", NumE(2)),
                  IF kind = "bare"
                  THEN Try(<<Step, b[1]>>, Absent, Absent)
                  ELSE LoopBody(kind, <<Step>> \o b)) >>
    ELSE <<For("v", ArrayE(<<NumE(1), NumE(2)>>), LoopBody(kind, b))>>

LoopProgram(w, loop, kind, b) ==
    Prelude \o Around(w, Loop(loop, kind, b)) \o <<PrintStmt(Variable("x"))>>

LoopInit ==
    /\ \E w \in {"top", "call"}, loop \in {"while", "for"}, kind \in LoopBodyKinds,
          b \in LoopStmts :
          statements = LoopProgram(w, loop, kind, b)
    /\ pc = 1
    /\ interp = InterpreterNew
    /\ output = <<>>
    /\ result = Running
    /\ lexer = LexerNew(<<>>)
    /\ tokens = <<>>
    /\ parser = ParserNew(<<>>)
    /\ stdin = <<>>

LoopSpec == LoopInit /\ [][Next]_vars

LoopExits == { i \in Events("exit") : Log[i].kind \in {"while", "for"} }

\* C26: when a while or for statement finishes without error, the break
\* flag and the continue flag are both clear.
C26_LoopsLeaveFlagsClear ==
    \A i \in LoopExits : Log[i].ok => ~Log[i].brk /\ ~Log[i].cont

(***************************************************************************)
(* run_repl: one Interpreter for all input lines; each line is lexed,      *)
(* parsed and handed to interpret, whatever the line before returned.      *)
(* The lines are given by their statements.                                *)
(***************************************************************************)
MaxLines == 2

PrintTwo == <<PrintStmt(StrE("a")), PrintStmt(StrE("b"))>>

ReplLines ==
    { <<Return(Present(NumE(7)))>>, <<Break>>, <<Continue>>,
      <<Throw(StrE("boom"))>>,
      <<VarDeclaration("x", Present(NumE(1)))>>,
      <<Function("g", <<>>, <<Return(Present(NumE(7)))>>),
        PrintStmt(Call(Variable("g"), <<>>))>>,
      <<For("v", ArrayE(<<NumE(1), NumE(2)>>), Block(<<Break>>))>>,
      <<Block(PrintTwo)>>,
      PrintTwo }

Inputs == UNION { [1..n -> ReplLines] : n \in 1..MaxLines }

\* run_repl has made its first call
ReplInit ==
    /\ \E lines \in Inputs :
          /\ statements = Head(lines)
          /\ stdin = Tail(lines)
    /\ pc = 1
    /\ interp = InterpreterNew
    /\ output = <<>>
    /\ result = Running
    /\ lexer = LexerNew(<<>>)
    /\ tokens = <<>>
    /\ parser = ParserNew(<<>>)

\* main.rs lines 80-106: interpret has returned, Ok or Err; the next line
\* is read and run on the same interpreter
ReplLine ==
    /\ result.done
    /\ stdin # <<>>
    /\ statements' = Head(stdin)
    /\ stdin' = Tail(stdin)
    /\ pc' = 1
    /\ output' = <<>>
    /\ result' = Running
    /\ UNCHANGED <<interp, lexer, tokens, parser>>

ReplNext == InterpretStmt \/ InterpretEnd \/ ReplLine

ReplSpec == ReplInit /\ [][ReplNext]_vars

\* C27: when interpret returns, return_value is clear and the break and
\* continue flags are false, and a call on a line of two print statements
\* that returns Ok has executed both of them.
C27_InterpretReturnsClear ==
    result.done =>
        /\ ~interp.return_value.some
        /\ ~interp.should_break
        /\ ~interp.should_continue
        /\ result.ok /\ statements = PrintTwo => pc > Len(statements)

(***************************************************************************)
(* Lexer::tokenize on sources made of quotes, backslashes and a few other  *)
(* characters, so that the input can end inside a string literal or        *)
(* inside an escape.                                                       *)
(***************************************************************************)
QuoteSegments == { <<"\"">>, <<"\\">>, <<"n">>, <<"a">>, <<"\n">>, <<" ">>, <<"1">> }

QuoteSources ==
    { Flatten(f) : f \in UNION { [1..n -> QuoteSegments] : n \in 0..MaxSegments } }

QuoteInit ==
    /\ \E source \in QuoteSources : lexer = LexerNew(source)
    /\ tokens = <<>>
    /\ parser = ParserNew(<<>>)
    /\ stdin = <<>>
    /\ statements = <<>>
    /\ pc = 1
    /\ interp = InterpreterNew
    /\ output = <<>>
    /\ result = Running

QuoteSpec == QuoteInit /\ [][LexNext]_vars

EofTokens == { j \in 1..Len(tokens) : tokens[j].token_type = Tok("Eof") }

\* C28: tokenize never indexes the source at or beyond its length, and the
\* token list it returns ends with the only EOF token in it.
C28_TokenizeStaysInBounds ==
    /\ result # Panicked
    /\ lexer.current <= Len(lexer.source)
    /\ result.done /\ result.ok => EofTokens = {Len(tokens)} /\ tokens # <<>>

(***************************************************************************)
(* The pop_scope calls of blocks, for loops and calls (programs of         *)
(* ScopeSpec, in which constructs are left by errors and by signals).      *)
(***************************************************************************)
PopMessage == "Can't pop global scope bestie, that's the foundation!"

Pops == { i \in Events("exit") : Log[i].kind \in {"block", "for", "call"} }

\* C29: no pop_scope call of the evaluator fails: the error of popping the
\* global scope is the message of no statement, no construct and no
\* interpret call, and a construct that returns Ok leaves at least the
\* frames it found.
C29_EveryPopSucceeds ==
    /\ result.msg # PopMessage
    /\ \A i \in Events("exit") \cup Events("stmt") : Log[i].msg # PopMessage
    /\ \A i \in Pops : Log[i].ok => Log[i].d1 >= Log[i].d0 /\ Log[i].d0 >= 1

\* a block, for loop or call has popped its scope above a frame that an
\* error left behind, and interpret has returned
C29_Witness ==
    /\ result.done
    /\ \E i \in Pops : Log[i].ok /\ Log[i].d1 > Log[i].d0

(***************************************************************************)
(* Programs in which a caller with a frame of its own (a block with the    *)
(* local x, a function h with the parameter p and the local x, a for loop  *)
(* with the variable v) calls g, whose body declares and assigns.          *)
(***************************************************************************)
Callers == {"block", "call", "for"}

CalleeStmts ==
    { Expression(AssignE("x", NumE(5))), VarDeclaration("x", Present(NumE(5))),
      VarDeclaration("p", Present(NumE(5))), Expression(AssignE("v", NumE(5))),
      VarDeclaration("z", Present(NumE(5))), Expression(AssignE("y", NumE(5))),
      PrintStmt(StrE("g")) }
CalleeBodies == UNION { [1..n -> CalleeStmts] : n \in 1..MaxBody }

Caller(w) ==
    CASE w = "block" ->
           <<Block(<< VarDeclaration("x", Present(NumE(1))), CallStmt("g"),
                      PrintStmt(Variable("x")) >>)>>
      [] w = "call" ->
           << Function("h", <<"p">>,
                       << VarDeclaration("x", Present(NumE(1))), CallStmt("g"),
                          PrintStmt(Variable("x")), PrintStmt(Variable("p")) >>),
              Expression(Call(Variable("h"), <<NumE(0)>>)) >>
      [] w = "for" ->
           <<For("v", ArrayE(<<NumE(1), NumE(2)>>),
                 Block(<<CallStmt("g"), PrintStmt(Variable("v"))>>))>>

FrameProgram(w, body) ==
    << VarDeclaration("y", Present(NumE(0))), Function("g", <<>>, body) >>
    \o Caller(w)
    \o <<PrintStmt(Variable("y"))>>

FrameInit ==
    /\ \E w \in Callers, body \in CalleeBodies : statements = FrameProgram(w, body)
    /\ pc = 1
    /\ interp = InterpreterNew
    /\ output = <<>>
    /\ result = Running
    /\ lexer = LexerNew(<<>>)
    /\ tokens = <<>>
    /\ parser = ParserNew(<<>>)
    /\ stdin = <<>>

FrameSpec == FrameInit /\ [][Next]_vars

\* C30: when a call of a user function returns, every frame of the caller
\* above the global one holds the bindings it held when the call began.
C30_CallKeepsCallerFrames ==
    \A i \in CallExits :
        Log[i].ok =>
            /\ Len(Log[i].s1) >= Len(Log[i].s0)
            /\ \A j \in 2..Len(Log[i].s0) : Log[i].s1[j] = Log[i].s0[j]

====
